---------------------------- MODULE Spec2Model ----------------------------
(***************************************************************************)
(* Plugin lifecycle manager (PluginManagerService) and the capability-     *)
(* gated resource proxies (S3RepositoryImpl, KafkaRepositoryImpl,          *)
(* DatabaseRepositoryImpl) built on top of it.                             *)
(*                                                                         *)
(* Strings are sequences of one-character strings, so that prefixing,      *)
(* startsWith, replace and the naming regexes are computed, not assumed.   *)
(***************************************************************************)
EXTENDS Integers, Sequences, FiniteSets, Bags, TLC

(***************************************************************************)
(* Characters and strings                                                  *)
(***************************************************************************)
LowerSeq == <<"a","b","c","d","e","f","g","h","i","j","k","l","m",
              "n","o","p","q","r","s","t","u","v","w","x","y","z">>
UpperSeq == <<"A","B","C","D","E","F","G","H","I","J","K","L","M",
              "N","O","P","Q","R","S","T","U","V","W","X","Y","Z">>
LowerLetters == {LowerSeq[i] : i \in DOMAIN LowerSeq}
UpperLetters == {UpperSeq[i] : i \in DOMAIN UpperSeq}
Digits == {"0","1","2","3","4","5","6","7","8","9"}

\* String.prototype.toLowerCase, one character
toLowerChar(c) ==
    IF c \in UpperLetters
    THEN LowerSeq[CHOOSE i \in DOMAIN UpperSeq : UpperSeq[i] = c]
    ELSE c

\* String.prototype.toLowerCase
toLowerCase(s) == [i \in DOMAIN s |-> toLowerChar(s[i])]

\* String.prototype.startsWith
startsWith(s, pre) ==
    /\ Len(pre) <= Len(s)
    /\ \A i \in 1..Len(pre) : s[i] = pre[i]

\* String.prototype.endsWith
endsWith(s, suf) ==
    /\ Len(suf) <= Len(s)
    /\ \A i \in 1..Len(suf) : s[Len(s) - Len(suf) + i] = suf[i]

\* pat occurs in s at position i (1-based)
occursAt(s, pat, i) ==
    /\ i >= 1
    /\ i + Len(pat) - 1 <= Len(s)
    /\ \A k \in 1..Len(pat) : s[i + k - 1] = pat[k]

\* String.prototype.replace(pat, rep) with a string pattern: the FIRST
\* occurrence of pat in s is replaced, nothing when pat does not occur.
replaceFirst(s, pat, rep) ==
    LET hits == {i \in 1..(Len(s) + 1) : occursAt(s, pat, i)}
    IN  IF hits = {} THEN s
        ELSE LET i == CHOOSE j \in hits : \A k \in hits : j <= k
             IN  SubSeq(s, 1, i - 1) \o rep \o SubSeq(s, i + Len(pat), Len(s))

\* `${pluginSlug}_`
slugPrefix(pluginSlug) == pluginSlug \o <<"_">>

\* the elements of a list, as a set
Range(f) == {f[i] : i \in DOMAIN f}

\* a list has no repeated element
NoDuplicates(names) ==
    \A i, j \in DOMAIN names : names[i] = names[j] => i = j

(***************************************************************************)
(* Naming Validator (naming-validation.ts).  TRUE = the zod schema parses, *)
(* FALSE = it throws.                                                      *)
(***************************************************************************)
PluginNameMax == 63
TableNameMax == 63
TopicNameMax == 249
BucketNameMin == 3
BucketNameMax == 63

DashUnderscore == {"-", "_"}

\* no two consecutive characters of s are both in cls:  !/[cls]{2,}/
NoConsecutive(s, cls) ==
    \A i \in 1..(Len(s) - 1) : ~(s[i] \in cls /\ s[i + 1] \in cls)

validatePluginName(name) ==
    /\ Len(name) >= 1
    /\ Len(name) <= PluginNameMax
    /\ name[1] \in LowerLetters \cup Digits
    /\ \A i \in DOMAIN name : name[i] \in LowerLetters \cup Digits \cup {"_", "-"}
    /\ name[Len(name)] \notin DashUnderscore
    /\ NoConsecutive(name, DashUnderscore)

validateTableName(name) ==
    /\ Len(name) >= 1
    /\ Len(name) <= TableNameMax
    /\ name[1] \in LowerLetters \cup {"_"}
    /\ \A i \in DOMAIN name : name[i] \in LowerLetters \cup Digits \cup {"_"}
    /\ name[Len(name)] # "_"
    /\ NoConsecutive(name, {"_"})

validateTopicName(name) ==
    /\ Len(name) >= 1
    /\ Len(name) <= TopicNameMax
    /\ \A i \in DOMAIN name : name[i] \in LowerLetters \cup Digits \cup {".", "_", "-"}
    /\ name[Len(name)] # "."
    /\ NoConsecutive(name, {"."})

\* /^[0-9]{1,3}\.[0-9]{1,3}\.[0-9]{1,3}\.[0-9]{1,3}$/
looksLikeIp(name) ==
    LET dots == {i \in DOMAIN name : name[i] = "."}
    IN  /\ \A i \in DOMAIN name : name[i] \in Digits \cup {"."}
        /\ Cardinality(dots) = 3
        /\ \A i \in dots \cup {0} :
              \* the run of digits that starts after position i
              LET nxt == {j \in dots \cup {Len(name) + 1} : j > i}
                  stop == CHOOSE j \in nxt : \A k \in nxt : j <= k
              IN  stop - i - 1 \in 1..3

validateBucketName(name) ==
    /\ Len(name) >= BucketNameMin
    /\ Len(name) <= BucketNameMax
    /\ name[1] \in LowerLetters \cup Digits
    /\ \A i \in DOMAIN name : name[i] \in LowerLetters \cup Digits \cup {".", "-"}
    /\ name[Len(name)] \notin {"-", "."}
    /\ NoConsecutive(name, {"."})
    /\ ~looksLikeIp(name)

\* the validator of one resource kind
validateName(kind, name) ==
    CASE kind = "table" -> validateTableName(name)
      [] kind = "topic" -> validateTopicName(name)
      [] kind = "bucket" -> validateBucketName(name)

\* validateResourceNames: every name valid, no duplicates
validateResourceNames(names, kind) ==
    /\ \A i \in DOMAIN names : validateName(kind, names[i])
    /\ NoDuplicates(names)

(***************************************************************************)
(* Plugin metadata and resource overrides (types/plugin.ts,                *)
(* PluginResourceOverrides).  An optional field is [some, v]; a name map   *)
(* (Record<string,string> / Map<string,string>) is a function from names   *)
(* to names.  A metadata list that is absent reads as [] everywhere in the *)
(* manager (metadata.allowedTables || []), so it is kept as a plain list.  *)
(***************************************************************************)
EmptyMap == [n \in {} |-> <<>>]
Absent(dflt) == [some |-> FALSE, v |-> dflt]
Some(val) == [some |-> TRUE, v |-> val]

Kinds == {"table", "topic", "bucket"}

\* the `undefined` resourceOverrides argument / a missing Map entry
NoOverrides ==
    [defined |-> FALSE,
     allowedTables |-> Absent(<<>>), allowedTopics |-> Absent(<<>>),
     allowedBuckets |-> Absent(<<>>),
     tableNameMap |-> Absent(EmptyMap), topicNameMap |-> Absent(EmptyMap),
     bucketNameMap |-> Absent(EmptyMap)]

overrideList(o, kind) ==
    CASE kind = "table" -> o.allowedTables
      [] kind = "topic" -> o.allowedTopics
      [] kind = "bucket" -> o.allowedBuckets

overrideMap(o, kind) ==
    CASE kind = "table" -> o.tableNameMap
      [] kind = "topic" -> o.topicNameMap
      [] kind = "bucket" -> o.bucketNameMap

metadataList(metadata, kind) ==
    CASE kind = "table" -> metadata.allowedTables
      [] kind = "topic" -> metadata.allowedTopics
      [] kind = "bucket" -> metadata.allowedBuckets

\* nameMap[key] || key   and   nameMap.get(key) || key :
\* a missing entry and an empty-string entry both fall back to the key
getOrKey(nameMap, key) ==
    IF key \in DOMAIN nameMap /\ nameMap[key] # <<>> THEN nameMap[key] ELSE key

(***************************************************************************)
(* validateNamingConventions (plugin-manager.service.ts:109-224).          *)
(* TRUE = returns, FALSE = throws InvalidNamingConventionError.            *)
(***************************************************************************)
\* resourceOverrides?.allowedX || metadata.allowedX || []   (an array, even
\* an empty one, is truthy)
listToValidate(metadata, resourceOverrides, kind) ==
    IF resourceOverrides.defined /\ overrideList(resourceOverrides, kind).some
    THEN overrideList(resourceOverrides, kind).v
    ELSE metadataList(metadata, kind)

\* resourceOverrides?.xNameMap || {}
mapToValidate(resourceOverrides, kind) ==
    IF resourceOverrides.defined /\ overrideMap(resourceOverrides, kind).some
    THEN overrideMap(resourceOverrides, kind).v
    ELSE EmptyMap

validateNamingConventions(metadata, resourceOverrides) ==
    /\ validatePluginName(metadata.name)
    /\ \A i \in DOMAIN metadata.dependencies :
          validatePluginName(metadata.dependencies[i])
    /\ \A kind \in Kinds :
          validateResourceNames(listToValidate(metadata, resourceOverrides, kind), kind)
    /\ \A kind \in Kinds :
          LET m == mapToValidate(resourceOverrides, kind)
          IN  \A original \in DOMAIN m :
                 validateName(kind, original) /\ validateName(kind, m[original])

(***************************************************************************)
(* Resource Access Controller: the part of createPluginContext that        *)
(* computes the allowed lists and the name maps                            *)
(* (plugin-manager.service.ts:248-322).                                    *)
(***************************************************************************)
prefixResources(resources, pluginSlug) ==
    [i \in DOMAIN resources |-> slugPrefix(pluginSlug) \o resources[i]]

applyNameMappings(resources, nameMap) ==
    IF ~nameMap.some THEN resources
    ELSE [i \in DOMAIN resources |-> getOrKey(nameMap.v, resources[i])]

\* const overrides = resourceOverrides || this.pluginResourceOverrides.get(pluginName)
overridesInForce(resourceOverrides, stored) ==
    IF resourceOverrides.defined THEN resourceOverrides ELSE stored

\* a selection in which an empty override list falls back to the metadata
rawResourcesOrMetadata(overrides, metadata, kind) ==
    IF overrides.defined /\ overrideList(overrides, kind).some
       /\ overrideList(overrides, kind).v # <<>>
    THEN overrideList(overrides, kind).v
    ELSE metadataList(metadata, kind)

\* overrides?.allowedX !== undefined ? overrides.allowedX : metadata.allowedX || []
rawResources(overrides, metadata, kind) ==
    IF overrides.defined /\ overrideList(overrides, kind).some
    THEN overrideList(overrides, kind).v
    ELSE metadataList(metadata, kind)

\* tableMap / topicMap / bucketMap: the Map handed to the repository; the
\* keys of the table map are lower-cased.  (No override of the model has two
\* keys that agree after lower-casing.)
storedNameMap(overrides, kind) ==
    LET given == IF overrides.defined /\ overrideMap(overrides, kind).some
                 THEN overrideMap(overrides, kind).v ELSE EmptyMap
        key(original) == IF kind = "table" THEN toLowerCase(original) ELSE original
    IN  [k \in {key(o) : o \in DOMAIN given} |->
            given[CHOOSE o \in DOMAIN given : key(o) = k]]

\* allowedTables / allowedTopics / allowedBuckets as handed to the repository
allowedResources(pluginName, overrides, metadata, kind) ==
    prefixResources(
        applyNameMappings(rawResources(overrides, metadata, kind),
                          IF overrides.defined THEN overrideMap(overrides, kind)
                          ELSE Absent(EmptyMap)),
        pluginName)

(***************************************************************************)
(* Resource proxies.  A repository is [allowed, pluginSlug, nameMap]; the  *)
(* outcome of one proxy operation is a record:                             *)
(*   error     "none", or the name of the error thrown to the plugin       *)
(*   attempted the resource name the error carries                         *)
(*   listed    the names the error enumerates                              *)
(*   invoked   whether the backing service was called                      *)
(*   handed    what the backing service was called with: a list of bucket  *)
(*             or topic names, or (database) the one statement text        *)
(***************************************************************************)
Denied(err, name, allowedNames) ==
    [error |-> err, attempted |-> name, listed |-> allowedNames,
     invoked |-> FALSE, handed |-> <<>>]

Delegated(args) ==
    [error |-> "none", attempted |-> <<>>, listed |-> {},
     invoked |-> TRUE, handed |-> args]

\* an unprefixing that maps the stored names back through the name map
unprefixedAllowedUnmapped(repo) ==
    LET plain(t) == replaceFirst(t, slugPrefix(repo.pluginSlug), <<>>)
        sources(t) == {k \in DOMAIN repo.nameMap : repo.nameMap[k] = plain(t)}
    IN  {IF sources(t) # {} THEN CHOOSE k \in sources(t) : TRUE ELSE plain(t) :
            t \in repo.allowed}

\* Array.from(this.allowedX).map((t) => t.replace(`${this.pluginSlug}_`, ""))
unprefixedAllowed(repo) ==
    {replaceFirst(t, slugPrefix(repo.pluginSlug), <<>>) : t \in repo.allowed}

(*************************** S3RepositoryImpl ******************************)
S3RepositoryImpl(allowedBuckets, pluginSlug, nameMap) ==
    [allowed |-> Range(allowedBuckets), pluginSlug |-> pluginSlug, nameMap |-> nameMap]

prefixBucketName(repo, bucket) ==
    LET mappedBucket == getOrKey(repo.nameMap, bucket)
    IN  IF startsWith(mappedBucket, slugPrefix(repo.pluginSlug))
        THEN mappedBucket
        ELSE slugPrefix(repo.pluginSlug) \o mappedBucket

\* [ok, bucketName]: returns bucketName, or throws BucketAccessDeniedError
validateBucketAccess(repo, bucket) ==
    IF bucket = <<>>
    THEN [ok |-> FALSE, bucketName |-> <<>>]
    ELSE LET bucketName == prefixBucketName(repo, bucket)
         IN  [ok |-> bucketName \in repo.allowed, bucketName |-> bucketName]

\* upload / download / delete / list / exists / getPresignedUrl
s3Operation(repo, bucket) ==
    LET v == validateBucketAccess(repo, bucket)
    IN  IF v.ok THEN Delegated(<<v.bucketName>>)
        ELSE Denied("BucketAccessDenied", bucket, unprefixedAllowed(repo))

getAllowedBuckets(repo) == unprefixedAllowed(repo)

(************************** KafkaRepositoryImpl ****************************)
KafkaRepositoryImpl(allowedTopics, pluginSlug, nameMap) ==
    [allowed |-> Range(allowedTopics), pluginSlug |-> pluginSlug, nameMap |-> nameMap]

prefixTopicName(repo, topic) ==
    LET mappedTopic == getOrKey(repo.nameMap, topic)
    IN  IF startsWith(mappedTopic, slugPrefix(repo.pluginSlug))
        THEN mappedTopic
        ELSE slugPrefix(repo.pluginSlug) \o mappedTopic

\* TRUE = returns, FALSE = throws TopicAccessDeniedError
validateTopicAccess(repo, topic) == prefixTopicName(repo, topic) \in repo.allowed

sendMessage(repo, topic) ==
    IF validateTopicAccess(repo, topic)
    THEN Delegated(<<prefixTopicName(repo, topic)>>)
    ELSE Denied("TopicAccessDenied", topic, unprefixedAllowed(repo))

\* a subscribe that validates the first topic of the list only
subscribeFirstOnly(repo, topics) ==
    IF validateTopicAccess(repo, topics[1])
    THEN Delegated([i \in DOMAIN topics |-> prefixTopicName(repo, topics[i])])
    ELSE Denied("TopicAccessDenied", topics[1], unprefixedAllowed(repo))

\* topics.map(validate-and-prefix) runs to its end, or throws at the first
\* topic that is denied, before kafkaService.subscribe is called
subscribe(repo, topics) ==
    LET bad == {i \in DOMAIN topics : ~validateTopicAccess(repo, topics[i])}
    IN  IF bad = {}
        THEN Delegated([i \in DOMAIN topics |-> prefixTopicName(repo, topics[i])])
        ELSE Denied("TopicAccessDenied",
                    topics[CHOOSE i \in bad : \A j \in bad : i <= j],
                    unprefixedAllowed(repo))

getAllowedTopics(repo) == unprefixedAllowed(repo)

(************************* DatabaseRepositoryImpl ***************************)
(* database.repository.ts:33-172.  A statement is its text; the five       *)
(* table patterns (keyword, white space, identifier; flags gi) are run     *)
(* over the text as the code runs them.                                    *)
Whitespace == {" ", "\t", "\n"}
IdentStart == LowerLetters \cup UpperLetters \cup {"_"}
IdentChar == IdentStart \cup Digits

\* tablePatterns, in the order of the array
tablePatterns ==
    << <<"f","r","o","m">>, <<"j","o","i","n">>, <<"u","p","d","a","t","e">>,
       <<"i","n","t","o">>, <<"t","a","b","l","e">> >>

\* ["select", "where", "group", "order", "having", "limit", "offset"]
sqlKeywords ==
    { <<"s","e","l","e","c","t">>, <<"w","h","e","r","e">>, <<"g","r","o","u","p">>,
      <<"o","r","d","e","r">>, <<"h","a","v","i","n","g">>, <<"l","i","m","i","t">>,
      <<"o","f","f","s","e","t">> }

\* lowerTable.startsWith("pg_") || [...].includes(lowerTable)
skippedTable(lowerTable) ==
    startsWith(lowerTable, <<"p","g","_">>) \/ lowerTable \in sqlKeywords

\* the end of the longest run of characters of cls that starts at i (i - 1: none)
runEnd(text, i, cls) ==
    LET stops == {j \in i..(Len(text) + 1) : j = Len(text) + 1 \/ text[j] \notin cls}
    IN  (CHOOSE j \in stops : \A k \in stops : j <= k) - 1

\* the keyword kw, in any case, stands in text at position i
keywordAt(text, kw, i) ==
    /\ i + Len(kw) - 1 <= Len(text)
    /\ \A k \in 1..Len(kw) : toLowerChar(text[i + k - 1]) = kw[k]

\* one match of the pattern  kw \s+ ([a-z_][a-z0-9_]*)  (flag i) that starts
\* at position i:
\* [found, nameStart, nameEnd]
matchAt(text, kw, i) ==
    LET wsStart == i + Len(kw)
        wsEnd == runEnd(text, wsStart, Whitespace)
        nameStart == wsEnd + 1
    IN  IF /\ keywordAt(text, kw, i)
           /\ wsEnd >= wsStart
           /\ nameStart <= Len(text)
           /\ text[nameStart] \in IdentStart
        THEN [found |-> TRUE, nameStart |-> nameStart,
              nameEnd |-> runEnd(text, nameStart, IdentChar)]
        ELSE [found |-> FALSE, nameStart |-> 0, nameEnd |-> 0]

DatabaseRepositoryImpl(allowedTables, pluginSlug, nameMap) ==
    [allowed |-> {toLowerCase(t) : t \in Range(allowedTables)},
     pluginSlug |-> pluginSlug, nameMap |-> nameMap]

prefixTableName(repo, tableName) ==
    LET lowerTable == toLowerCase(tableName)
        mappedLower == toLowerCase(getOrKey(repo.nameMap, lowerTable))
    IN  IF startsWith(mappedLower, slugPrefix(repo.pluginSlug))
        THEN mappedLower
        ELSE slugPrefix(repo.pluginSlug) \o mappedLower

\* the capture groups of all matches of one pattern, left to right (the
\* global regex resumes after the end of each match)
RECURSIVE capturedTables(_, _, _)
capturedTables(text, kw, i) ==
    IF i > Len(text) THEN <<>>
    ELSE LET m == matchAt(text, kw, i)
         IN  IF m.found
             THEN <<SubSeq(text, m.nameStart, m.nameEnd)>>
                  \o capturedTables(text, kw, m.nameEnd + 1)
             ELSE capturedTables(text, kw, i + 1)

\* referencedTables, in insertion order (with repetitions), without the
\* skipped names
referencedTables(querySql) ==
    LET sqlLower == toLowerCase(querySql)
        perPattern(k) == SelectSeq(capturedTables(sqlLower, tablePatterns[k], 1),
                                   LAMBDA t : ~skippedTable(t))
    IN  perPattern(1) \o perPattern(2) \o perPattern(3) \o perPattern(4) \o perPattern(5)

\* [ok, table]: returns, or throws TableAccessDeniedError(table, ...)
validateTableAccess(repo, querySql) ==
    LET refs == referencedTables(querySql)
        bad == {i \in DOMAIN refs : prefixTableName(repo, refs[i]) \notin repo.allowed}
    IN  IF bad = {} THEN [ok |-> TRUE, table |-> <<>>]
        ELSE [ok |-> FALSE, table |-> refs[CHOOSE i \in bad : \A j \in bad : i <= j]]

\* result.replace(pattern, callback) for one pattern
RECURSIVE replacePattern(_, _, _, _)
replacePattern(repo, text, kw, i) ==
    IF i > Len(text) THEN <<>>
    ELSE LET m == matchAt(text, kw, i)
         IN  IF m.found
             THEN LET match == SubSeq(text, i, m.nameEnd)
                      tableName == SubSeq(text, m.nameStart, m.nameEnd)
                      lowerTable == toLowerCase(tableName)
                  IN  (IF skippedTable(lowerTable) THEN match
                       ELSE replaceFirst(match, tableName,
                                         prefixTableName(repo, lowerTable)))
                      \o replacePattern(repo, text, kw, m.nameEnd + 1)
             ELSE <<text[i]>> \o replacePattern(repo, text, kw, i + 1)

\* the patterns are applied one after the other, each to the result of the last
prefixTablesInSql(repo, querySql) ==
    LET r1 == replacePattern(repo, querySql, tablePatterns[1], 1)
        r2 == replacePattern(repo, r1, tablePatterns[2], 1)
        r3 == replacePattern(repo, r2, tablePatterns[3], 1)
        r4 == replacePattern(repo, r3, tablePatterns[4], 1)
    IN  replacePattern(repo, r4, tablePatterns[5], 1)

\* executeQuery / executeCommand
executeQuery(repo, querySql) ==
    LET v == validateTableAccess(repo, querySql)
    IN  IF v.ok THEN Delegated(prefixTablesInSql(repo, querySql))
        ELSE Denied("TableAccessDenied", v.table, unprefixedAllowed(repo))

getAllowedTables(repo) == unprefixedAllowed(repo)

(***************************************************************************)
(* The modules the loader can import, and the overrides an operator can    *)
(* pass: the inputs of the lifecycle specification.                        *)
(***************************************************************************)
NameA == <<"a">>
NameB == <<"b">>
NameAB == <<"a","_","b">>
TableM == <<"m">>
TableAA == <<"a","_","a">>
TableBC == <<"b","_","c">>
TableC == <<"c">>
TableAc == <<"a","c">>
TopicE == <<"e">>
TopicEv == <<"e","v">>
TopicBC == <<"b","_","c">>
TopicC == <<"c">>
BucketDat == <<"d","a","t">>
BucketLog == <<"l","o","g">>
BucketXyz == <<"x","y","z">>

\* import(path): a Plugin.  initialize / cleanup: whether the hook exists;
\* a hook that exists may return or throw.
modules ==
    [pa |-> [metadata |-> [name |-> NameA, dependencies |-> <<>>,
                           allowedTables |-> <<TableM, TableAA, TableBC>>,
                           allowedTopics |-> <<TopicE, TopicBC>>,
                           allowedBuckets |-> <<BucketDat>>],
             initialize |-> TRUE, cleanup |-> TRUE],
     pb |-> [metadata |-> [name |-> NameB, dependencies |-> <<NameA>>,
                           allowedTables |-> <<>>,
                           allowedTopics |-> <<TopicE>>,
                           allowedBuckets |-> <<>>],
             initialize |-> TRUE, cleanup |-> FALSE],
     pc |-> [metadata |-> [name |-> NameAB, dependencies |-> <<>>,
                           allowedTables |-> <<TableC>>,
                           allowedTopics |-> <<TopicC>>,
                           allowedBuckets |-> <<BucketDat>>],
             initialize |-> TRUE, cleanup |-> FALSE],
     \* another module of plugin a, which depends on b
     pd |-> [metadata |-> [name |-> NameA, dependencies |-> <<NameB>>,
                           allowedTables |-> <<>>,
                           allowedTopics |-> <<>>,
                           allowedBuckets |-> <<>>],
             initialize |-> TRUE, cleanup |-> FALSE],
     \* a module of plugin b without dependencies
     pf |-> [metadata |-> [name |-> NameB, dependencies |-> <<>>,
                           allowedTables |-> <<>>,
                           allowedTopics |-> <<>>,
                           allowedBuckets |-> <<>>],
             initialize |-> TRUE, cleanup |-> FALSE],
     \* another module of plugin a, which names itself as a dependency
     pe |-> [metadata |-> [name |-> NameA, dependencies |-> <<NameA>>,
                           allowedTables |-> <<>>,
                           allowedTopics |-> <<>>,
                           allowedBuckets |-> <<>>],
             initialize |-> TRUE, cleanup |-> FALSE],
     \* a module of plugin b, which depends on a, with a cleanup hook
     pg |-> [metadata |-> [name |-> NameB, dependencies |-> <<NameA>>,
                           allowedTables |-> <<>>,
                           allowedTopics |-> <<>>,
                           allowedBuckets |-> <<>>],
             initialize |-> TRUE, cleanup |-> TRUE]]

\* the plugins of the lifecycle specification
Paths == {"pa", "pb"}
PluginNames == {modules[p].metadata.name : p \in Paths}

\* a valid override: a table list with a name map, a topic name map without
\* a list, an empty bucket list (zero access)
OverridesMapped ==
    [NoOverrides EXCEPT !.defined = TRUE,
                        !.allowedTables = Some(<<TableM>>),
                        !.tableNameMap = Some(TableM :> TableAc),
                        !.topicNameMap = Some(TopicE :> TopicEv),
                        !.allowedBuckets = Some(<<>>)]

\* a valid override: a bucket list with a name map for one of its names
OverridesBuckets ==
    [NoOverrides EXCEPT !.defined = TRUE,
                        !.allowedBuckets = Some(<<BucketDat, BucketLog>>),
                        !.bucketNameMap = Some(BucketDat :> BucketXyz)]

\* an override that breaks the naming rules: an upper-case table name, a
\* bucket of two characters
OverridesInvalid ==
    [NoOverrides EXCEPT !.defined = TRUE,
                        !.allowedTables = Some(<< <<"U">> >>),
                        !.allowedBuckets = Some(<< <<"d","a">> >>)]

OverrideValues == {OverridesMapped, OverridesInvalid}
OverrideArgs == OverrideValues \cup {NoOverrides}

(***************************************************************************)
(* State of PluginManagerService (plugin-manager.service.ts:61-78).  A Map *)
(* is a function whose domain is the set of its keys.                      *)
(***************************************************************************)
VARIABLES
    plugins,                  \* Map<string, Plugin>: name -> [path, load]
    pluginPaths,              \* Map<string, string>
    pluginListeners,          \* Map<string, Map<string, Set<listener>>>
    pluginDependencies,       \* Map<string, Set<string>>
    pluginContexts,           \* Map<string, PluginContext>: name -> context id
    invalidatedPlugins,       \* Set<string>
    pluginResourceOverrides,  \* Map<string, PluginResourceOverrides>
    pluginResourceNameMaps,   \* Map<string, {tables, topics, buckets}>
    busListeners,             \* the listeners of pluginEventBus, in order
    contexts,                 \* every PluginContext created so far, by id
    tasks,                    \* the suspended asynchronous operations (a bag)
    unloadBegun,              \* loads whose unload has marked the name invalid
    unloadDone,               \* loads whose unload has run to its end
    emitted,                  \* the pluginLoaded / pluginUnloaded emitted (a bag)
    lastOverrideCall,         \* name -> the last set / clear of its overrides
    lastCall                  \* the call a plugin has just made through a context

managerVars ==
    <<plugins, pluginPaths, pluginListeners, pluginDependencies, pluginContexts,
      invalidatedPlugins, pluginResourceOverrides, pluginResourceNameMaps,
      busListeners>>

vars ==
    <<plugins, pluginPaths, pluginListeners, pluginDependencies, pluginContexts,
      invalidatedPlugins, pluginResourceOverrides, pluginResourceNameMaps,
      busListeners, contexts, tasks, unloadBegun, unloadDone, emitted,
      lastOverrideCall, lastCall>>

\* bounds of the model
MaxTasks == 2
MaxLoads == 2
MaxListeners == 2
MaxBulkLoads == 3

\* Map operations
has(map, key) == key \in DOMAIN map
mapSet(map, key, val) == [k \in DOMAIN map \cup {key} |-> IF k = key THEN val ELSE map[k]]
mapDelete(map, key) == [k \in DOMAIN map \ {key} |-> map[k]]
EmptyFn == [k \in {} |-> 0]

\* this.pluginResourceOverrides.get(name)
storedOverrides(overrides, name) ==
    IF has(overrides, name) THEN overrides[name] ELSE NoOverrides

\* lastCall is the call made or settled by the last step, when that step was
\* a call through a context or the end of a loadPlugin / unloadPlugin:
\* [api, ctx, request, outcome]
NoCall == [api |-> "none", ctx |-> 0, request |-> <<>>, outcome |-> <<>>]

Init ==
    /\ plugins = EmptyFn
    /\ pluginPaths = EmptyFn
    /\ pluginListeners = EmptyFn
    /\ pluginDependencies = EmptyFn
    /\ pluginContexts = EmptyFn
    /\ invalidatedPlugins = {}
    /\ pluginResourceOverrides = EmptyFn
    /\ pluginResourceNameMaps = EmptyFn
    /\ busListeners = <<>>
    /\ contexts = <<>>
    /\ tasks = EmptyBag
    /\ unloadBegun = {}
    /\ unloadDone = {}
    /\ emitted = EmptyBag
    /\ lastOverrideCall = EmptyFn
    /\ lastCall = NoCall

(***************************************************************************)
(* The manager as one record, so that the synchronous parts of the         *)
(* operations compose as functions from manager state to manager state.    *)
(***************************************************************************)
M ==
    [plugins |-> plugins, pluginPaths |-> pluginPaths,
     pluginListeners |-> pluginListeners, pluginDependencies |-> pluginDependencies,
     pluginContexts |-> pluginContexts, invalidatedPlugins |-> invalidatedPlugins,
     pluginResourceOverrides |-> pluginResourceOverrides,
     pluginResourceNameMaps |-> pluginResourceNameMaps,
     busListeners |-> busListeners, contexts |-> contexts,
     unloadBegun |-> unloadBegun, unloadDone |-> unloadDone,
     emitted |-> emitted, lastOverrideCall |-> lastOverrideCall]

SetM(m) ==
    /\ plugins' = m.plugins
    /\ pluginPaths' = m.pluginPaths
    /\ pluginListeners' = m.pluginListeners
    /\ pluginDependencies' = m.pluginDependencies
    /\ pluginContexts' = m.pluginContexts
    /\ invalidatedPlugins' = m.invalidatedPlugins
    /\ pluginResourceOverrides' = m.pluginResourceOverrides
    /\ pluginResourceNameMaps' = m.pluginResourceNameMaps
    /\ busListeners' = m.busListeners
    /\ contexts' = m.contexts
    /\ unloadBegun' = m.unloadBegun
    /\ unloadDone' = m.unloadDone
    /\ emitted' = m.emitted
    /\ lastOverrideCall' = m.lastOverrideCall

(***************************************************************************)
(* validateDependencies / checkCircularDependencies                        *)
(* (plugin-manager.service.ts:92-107, 226-243): "ok", or the error thrown. *)
(***************************************************************************)
RECURSIVE checkCircularDependencies(_, _, _)
checkCircularDependencies(m, dependencies, visited) ==
    \A depName \in dependencies :
        /\ depName \notin visited
        /\ LET depDependencies == IF has(m.pluginDependencies, depName)
                                  THEN m.pluginDependencies[depName] ELSE {}
           IN  depDependencies # {} =>
                  checkCircularDependencies(m, depDependencies, visited \cup {depName})

\* the visited sets with which a CircularDependencyError can be thrown: its
\* dependencyChain (plugin-errors.ts:39-47)
RECURSIVE circularChains(_, _, _)
circularChains(m, dependencies, visited) ==
    UNION {IF depName \in visited THEN {visited}
           ELSE LET depDependencies == IF has(m.pluginDependencies, depName)
                                       THEN m.pluginDependencies[depName] ELSE {}
                IN  IF depDependencies # {}
                    THEN circularChains(m, depDependencies, visited \cup {depName})
                    ELSE {} : depName \in dependencies}

\* the circular check left out
validateDependenciesUnchecked(m, metadata) ==
    LET deps == metadata.dependencies
        failing == {i \in DOMAIN deps :
                       ~has(m.plugins, deps[i]) \/ deps[i] = metadata.name}
        first == CHOOSE i \in failing : \A j \in failing : i <= j
    IN  IF failing # {}
        THEN IF ~has(m.plugins, deps[first]) THEN "DependencyNotFoundError"
             ELSE "SelfDependencyError"
        ELSE "ok"

\* the presence of the dependencies in the registry left unchecked
validateDependenciesAbsent(m, metadata) ==
    IF metadata.name \in Range(metadata.dependencies) THEN "SelfDependencyError"
    ELSE "ok"

\* the first dependency that throws decides the error
validateDependencies(m, metadata) ==
    LET deps == metadata.dependencies
        failing == {i \in DOMAIN deps :
                       ~has(m.plugins, deps[i]) \/ deps[i] = metadata.name}
        first == CHOOSE i \in failing : \A j \in failing : i <= j
    IN  IF failing # {}
        THEN IF ~has(m.plugins, deps[first]) THEN "DependencyNotFoundError"
             ELSE "SelfDependencyError"
        ELSE IF checkCircularDependencies(m, Range(deps), {metadata.name}) THEN "ok"
             ELSE "CircularDependencyError"

(***************************************************************************)
(* createPluginContext (plugin-manager.service.ts:266-418).  The context   *)
(* object is appended to contexts; its id is its index.                    *)
(***************************************************************************)
createPluginContext(m, pluginName, dependencies, metadata, resourceOverrides) ==
    LET stored == storedOverrides(m.pluginResourceOverrides, pluginName)
        overrides == overridesInForce(resourceOverrides, stored)
        allowedTables == allowedResources(pluginName, overrides, metadata, "table")
        allowedTopics == allowedResources(pluginName, overrides, metadata, "topic")
        allowedBuckets == allowedResources(pluginName, overrides, metadata, "bucket")
        tableMap == storedNameMap(overrides, "table")
        topicMap == storedNameMap(overrides, "topic")
        bucketMap == storedNameMap(overrides, "bucket")
        depNames == {d \in Range(dependencies) : has(m.plugins, d)}
        context ==
            [pluginName |-> pluginName,
             dependencies |-> dependencies,
             dependencyPlugins |-> [d \in depNames |-> m.plugins[d]],
             s3 |-> S3RepositoryImpl(allowedBuckets, pluginName, bucketMap),
             database |-> DatabaseRepositoryImpl(allowedTables, pluginName, tableMap),
             kafka |-> KafkaRepositoryImpl(allowedTopics, pluginName, topicMap),
             \* what the context was built from, and whether a plugin holds it
             allowedTables |-> allowedTables,
             allowedTopics |-> allowedTopics,
             allowedBuckets |-> allowedBuckets,
             metadata |-> metadata,
             resourceOverrides |-> resourceOverrides,
             stored |-> stored,
             handed |-> FALSE]
        id == Len(m.contexts) + 1
    IN  [m EXCEPT !.pluginResourceNameMaps =
                      mapSet(@, pluginName,
                             [tables |-> tableMap, topics |-> topicMap,
                              buckets |-> bucketMap]),
                  !.contexts = Append(@, context),
                  !.pluginContexts = mapSet(@, pluginName, id)]

(***************************************************************************)
(* unloadPlugin (plugin-manager.service.ts:492-533), in its two halves:    *)
(* up to the await of plugin.cleanup(), and after it.                      *)
(***************************************************************************)
\* the listeners recorded for a plugin: the union over its events
trackedListeners(m, name) ==
    IF has(m.pluginListeners, name)
    THEN UNION {m.pluginListeners[name][e] : e \in DOMAIN m.pluginListeners[name]}
    ELSE {}

\* this.emit("pluginLoaded" | "pluginUnloaded", ...) of the manager, for the
\* plugin of that name
emit(event, name) == SetToBag({[event |-> event, name |-> name]})

\* lines 506-523, for the plugin object captured at line 493
unloadFinish(m, name, plugin) ==
    [m EXCEPT !.busListeners =
                  SelectSeq(@, LAMBDA l : l.id \notin trackedListeners(m, name)),
              !.pluginListeners = mapDelete(@, name),
              !.pluginDependencies = mapDelete(@, name),
              !.pluginContexts = mapDelete(@, name),
              !.plugins = mapDelete(@, name),
              !.pluginPaths = mapDelete(@, name),
              !.invalidatedPlugins = @ \ {name},
              !.unloadDone = @ \cup {plugin.load},
              !.emitted = @ (+) emit("pluginUnloaded", name)]

\* lines 493-504: [m, suspended, plugin].  suspended: the call awaits
\* plugin.cleanup(); otherwise it has returned
unloadStart(m, name) ==
    IF ~has(m.plugins, name)
    THEN [m |-> m, suspended |-> FALSE, plugin |-> [path |-> "", load |-> 0]]
    ELSE LET plugin == m.plugins[name]
             marked == [m EXCEPT !.invalidatedPlugins = @ \cup {name},
                                 !.unloadBegun = @ \cup {plugin.load}]
         IN  IF modules[plugin.path].cleanup
             THEN [m |-> marked, suspended |-> TRUE, plugin |-> plugin]
             ELSE [m |-> unloadFinish(marked, name, plugin), suspended |-> FALSE,
                   plugin |-> plugin]

(***************************************************************************)
(* loadPlugin (plugin-manager.service.ts:420-490) from line 441 to the     *)
(* await of plugin.initialize(context): [m, error, ctx, suspended].        *)
(***************************************************************************)
loadBody(m, pluginPath, resourceOverrides) ==
    LET metadata == modules[pluginPath].metadata
        name == metadata.name
        depError == validateDependencies(m, metadata)
        m1 == [m EXCEPT !.pluginDependencies =
                            mapSet(@, name, Range(metadata.dependencies)),
                        !.pluginResourceOverrides =
                            IF resourceOverrides.defined
                            THEN mapSet(@, name, resourceOverrides) ELSE @]
        m2 == createPluginContext(m1, name, metadata.dependencies, metadata,
                                  resourceOverrides)
        id == Len(m2.contexts)
    IN  IF ~validateNamingConventions(metadata, resourceOverrides)
        THEN [m |-> m, error |-> "InvalidNamingConventionError", ctx |-> 0,
              suspended |-> FALSE]
        ELSE IF depError # "ok"
        THEN [m |-> m, error |-> depError, ctx |-> 0, suspended |-> FALSE]
        ELSE IF modules[pluginPath].initialize
        THEN [m |-> [m2 EXCEPT !.contexts[id].handed = TRUE], error |-> "none",
              ctx |-> id, suspended |-> TRUE]
        ELSE [m |-> [m2 EXCEPT !.plugins =
                                   mapSet(@, name, [path |-> pluginPath, load |-> id]),
                               !.pluginPaths = mapSet(@, name, pluginPath),
                               !.emitted = @ (+) emit("pluginLoaded", name)],
              error |-> "none", ctx |-> id, suspended |-> FALSE]

(***************************************************************************)
(* Asynchronous operations.  A task is one call of loadPlugin,             *)
(* unloadPlugin or reloadPlugin suspended at an await:                     *)
(*   pc    "import"      loadPlugin awaits import(moduleUrl)               *)
(*         "cleanup"     unloadPlugin awaits plugin.cleanup()              *)
(*         "validate"    loadPlugin awaits the unloadPlugin it called      *)
(*         "initialize"  loadPlugin awaits plugin.initialize(context)      *)
(*   next  where the caller of a suspended unloadPlugin goes on: "done"    *)
(*         (a plain unloadPlugin), "validate" (loadPlugin, line 438),      *)
(*         "import" (reloadPlugin, line 559)                               *)
(***************************************************************************)
NoPlugin == [path |-> "", load |-> 0]

\* the outcome of a call: the error thrown ("none": the call returned), the
\* value returned, the listeners an emit has invoked, the errors that the
\* step has emitted as pluginError events
Threw(err) ==
    [error |-> err, returned |-> NoPlugin, delivered |-> <<>>, broadcast |-> {}]
Returned(val, ids) ==
    [error |-> "none", returned |-> val, delivered |-> ids, broadcast |-> {}]

\* this.emit("pluginError", err) in a catch block (lines 479, 487, 530)
emitError(outcome, err) == [outcome EXCEPT !.broadcast = @ \cup {err}]

\* the call that the step makes or settles.  For a call of plugin code
\* through a context: the context and the argument.  For loadPlugin and
\* unloadPlugin, at the step where the promise settles: the context of the
\* plugin instance loaded / unloaded (0: none) and the operation's task.
\* For plugin.initialize, at the step where loadPlugin calls the hook: the
\* context it hands over and the task of the loadPlugin
Call(api, c, request, outcome) ==
    lastCall' = [api |-> api, ctx |-> c, request |-> request, outcome |-> outcome]

\* the local variables of a loadPluginsFromDirectory call (lines 569-595),
\* the Map remainingPlugins as the sequence of its paths in insertion order;
\* rest: the entries that the for loop of line 597 has still to visit
NoBulk ==
    [pluginModules |-> <<>>, remaining |-> <<>>, rest |-> <<>>,
     loadedPlugins |-> {}, loadedAny |-> FALSE]

Task(op, pc, next, pluginPath, resourceOverrides, name, plugin, ctx) ==
    [op |-> op, pc |-> pc, next |-> next, path |-> pluginPath,
     resourceOverrides |-> resourceOverrides, name |-> name, plugin |-> plugin,
     ctx |-> ctx, bulk |-> NoBulk]

Spawn(t) == tasks' = tasks (+) SetToBag({t})
Resume(t, u) == tasks' = (tasks (-) SetToBag({t})) (+) SetToBag({u})
Finish(t) == tasks' = tasks (-) SetToBag({t})

\* a settle that keeps the descriptor of a plugin whose load has failed
bulkSettledKeeping(bulk, pluginPath, name, ok) ==
    [bulk EXCEPT !.remaining = IF ok THEN SelectSeq(@, LAMBDA q : q # pluginPath) ELSE @,
                 !.loadedPlugins = IF ok THEN @ \cup {name} ELSE @,
                 !.loadedAny = @ \/ ok]

\* lines 606-608 and 612: the loadPlugin awaited at line 605 has settled
bulkSettled(bulk, pluginPath, name, ok) ==
    [bulk EXCEPT !.remaining = SelectSeq(@, LAMBDA q : q # pluginPath),
                 !.loadedPlugins = IF ok THEN @ \cup {name} ELSE @,
                 !.loadedAny = @ \/ ok]

\* the call of loadPlugin that task t is in has settled: the call ends, or
\* the loadPluginsFromDirectory that awaits it goes on (pc "loop")
Settle(t, ok) ==
    IF t.op = "loadPluginsFromDirectory"
    THEN Resume(t, [t EXCEPT !.pc = "loop",
                             !.bulk = bulkSettled(@, t.path, t.name, ok)])
    ELSE Finish(t)

\* the tasks that will still create a context
createsContext(t) == t.pc \in {"import", "validate"} \/ (t.pc = "cleanup" /\ t.next # "done")
pendingLoads ==
    LET S == {t \in BagToSet(tasks) : createsContext(t)}
    IN  BagCardinality([t \in S |-> tasks[t]])

\* room for one more suspended operation / one more load within the bounds
TaskRoom == BagCardinality(tasks) < MaxTasks
LoadRoomWithin(maxLoads) == TaskRoom /\ Len(contexts) + pendingLoads < maxLoads
LoadRoom == LoadRoomWithin(MaxLoads)

\* loadPlugin(pluginPath, resourceOverrides), up to the await of import(),
\* while fewer than maxLoads contexts have been or will be created
LoadPluginWithin(pluginPath, resourceOverrides, maxLoads) ==
    /\ LoadRoomWithin(maxLoads)
    /\ Spawn(Task("loadPlugin", "import", "done", pluginPath, resourceOverrides,
                  modules[pluginPath].metadata.name, NoPlugin, 0))
    /\ UNCHANGED <<managerVars, contexts, unloadBegun, unloadDone, emitted,
                 lastOverrideCall>>
    /\ lastCall' = NoCall

CallLoadPlugin(pluginPath, resourceOverrides) ==
    LoadPluginWithin(pluginPath, resourceOverrides, MaxLoads)

\* lines 441-462 of loadPlugin for task t, from manager state m
ContinueLoad(t, m) ==
    LET r == loadBody(m, t.path, t.resourceOverrides)
    IN  /\ SetM(r.m)
        /\ IF r.suspended
           THEN /\ Resume(t, [t EXCEPT !.pc = "initialize", !.ctx = r.ctx])
                /\ Call("plugin.initialize", r.ctx, t, Returned(NoPlugin, <<>>))
           ELSE /\ Settle(t, r.error = "none")
                /\ Call("loadPlugin", r.ctx, t,
                        IF r.error # "none" THEN emitError(Threw(r.error), r.error)
                        ELSE Returned([path |-> t.path, load |-> r.ctx], <<>>))

\* import() has resolved: lines 428-439, and on to line 462 when the name
\* is not registered
LoadAfterImport(t) ==
    /\ t.pc = "import"
    /\ IF has(plugins, t.name)
       THEN LET r == unloadStart(M, t.name)
                u == [t EXCEPT !.plugin = r.plugin]
            IN  /\ SetM(r.m)
                /\ IF r.suspended
                   THEN /\ Resume(t, [u EXCEPT !.pc = "cleanup", !.next = "validate"])
                        /\ lastCall' = NoCall
                   ELSE /\ Resume(t, [u EXCEPT !.pc = "validate"])
                        /\ Call("unloadPlugin", r.plugin.load, u, Returned(NoPlugin, <<>>))
       ELSE ContinueLoad(t, M)

\* the unloadPlugin awaited at line 438 has resolved
LoadAfterUnload(t) ==
    /\ t.pc = "validate"
    /\ ContinueLoad(t, M)

\* plugin.initialize(context) has returned: lines 464-470
LoadAfterInitialize(t) ==
    /\ t.pc = "initialize"
    /\ SetM([M EXCEPT !.plugins = mapSet(@, t.name, [path |-> t.path, load |-> t.ctx]),
                      !.pluginPaths = mapSet(@, t.name, t.path),
                      !.emitted = @ (+) emit("pluginLoaded", t.name)])
    /\ Settle(t, TRUE)
    /\ Call("loadPlugin", t.ctx, t, Returned([path |-> t.path, load |-> t.ctx], <<>>))

\* plugin.initialize(context) has thrown: lines 471-489
LoadInitializeThrows(t) ==
    /\ t.pc = "initialize"
    /\ Settle(t, FALSE)
    /\ UNCHANGED <<managerVars, contexts, unloadBegun, unloadDone, emitted,
                   lastOverrideCall>>
    /\ Call("loadPlugin", t.ctx, t, emitError(Threw("PluginLoadError"), "PluginLoadError"))

\* unloadPlugin(name), up to the await of plugin.cleanup() or, without a
\* cleanup hook, to its end
CallUnloadPlugin(name) ==
    LET r == unloadStart(M, name)
        t == Task("unloadPlugin", "cleanup", "done", "", NoOverrides, name, r.plugin, 0)
    IN  /\ r.suspended => TaskRoom
        /\ SetM(r.m)
        /\ IF r.suspended
           THEN Spawn(t) /\ lastCall' = NoCall
           ELSE /\ UNCHANGED tasks
                /\ Call("unloadPlugin", r.plugin.load, t, Returned(NoPlugin, <<>>))

\* plugin.cleanup() has returned: lines 506-524, then the caller goes on
UnloadAfterCleanup(t) ==
    /\ t.pc = "cleanup"
    /\ SetM(unloadFinish(M, t.name, t.plugin))
    /\ IF t.next = "done" THEN Finish(t)
       ELSE Resume(t, [t EXCEPT !.pc = t.next,
                                !.plugin = IF t.next = "validate" THEN @ ELSE NoPlugin])
    /\ Call("unloadPlugin", t.plugin.load, t, Returned(NoPlugin, <<>>))

\* a failure of plugin.cleanup() that takes the invalidation mark back
UnloadCleanupThrowsRestoring(t) ==
    /\ t.pc = "cleanup"
    /\ Settle(t, FALSE)
    /\ SetM([M EXCEPT !.invalidatedPlugins = @ \ {t.name}])
    /\ Call(IF t.next = "validate" THEN "loadPlugin"
            ELSE IF t.next = "done" THEN "unloadPlugin" ELSE t.op, 0, t,
            emitError(Threw(IF t.next = "validate" THEN "PluginLoadError"
                            ELSE "PluginUnloadError"),
                      IF t.next = "validate" THEN "PluginLoadError"
                      ELSE "PluginUnloadError"))

\* plugin.cleanup() has thrown: lines 525-532, unloadPlugin rejects with
\* PluginUnloadError.  The error ends the caller too: a loadPlugin that
\* awaits the unload at line 438 (next = "validate") rejects with
\* PluginLoadError (lines 483-488), a reloadPlugin rejects with the error of
\* the unloadPlugin
UnloadCleanupThrows(t) ==
    /\ t.pc = "cleanup"
    /\ Settle(t, FALSE)
    /\ UNCHANGED <<managerVars, contexts, unloadBegun, unloadDone, emitted,
                   lastOverrideCall>>
    /\ IF t.next = "validate"
       THEN Call("loadPlugin", 0, t,
                 emitError(emitError(Threw("PluginLoadError"), "PluginUnloadError"),
                           "PluginLoadError"))
       ELSE Call(IF t.next = "done" THEN "unloadPlugin" ELSE t.op, 0, t,
                 emitError(Threw("PluginUnloadError"), "PluginUnloadError"))

(***************************************************************************)
(* unloadAll (plugin-manager.service.ts:627-630): unloadPlugin is called   *)
(* for every key of the registry, each call running up to its await of     *)
(* plugin.cleanup() or to its end; the calls for different names touch     *)
(* different entries, so the order of the keys does not matter.            *)
(* [m, spawned]: the manager after the calls and the bag of suspended ones *)
(* (op "unloadAll": an unloadPlugin called by unloadAll)                   *)
(***************************************************************************)
\* unloadPlugin called for one key of the registry only
unloadAllStartOne(m, pluginNames) ==
    IF pluginNames = {} THEN [m |-> m, spawned |-> EmptyBag]
    ELSE LET name == CHOOSE n \in pluginNames : TRUE
             r == unloadStart(m, name)
         IN  [m |-> r.m,
              spawned |->
                  IF r.suspended
                  THEN SetToBag({Task("unloadAll", "cleanup", "done", "",
                                      NoOverrides, name, r.plugin, 0)})
                  ELSE EmptyBag]

RECURSIVE unloadAllStart(_, _)
unloadAllStart(m, pluginNames) ==
    IF pluginNames = {} THEN [m |-> m, spawned |-> EmptyBag]
    ELSE LET name == CHOOSE n \in pluginNames : TRUE
             r == unloadStart(m, name)
             rest == unloadAllStart(r.m, pluginNames \ {name})
         IN  [m |-> rest.m,
              spawned |->
                  IF r.suspended
                  THEN rest.spawned (+)
                       SetToBag({Task("unloadAll", "cleanup", "done", "",
                                      NoOverrides, name, r.plugin, 0)})
                  ELSE rest.spawned]

CallUnloadAll ==
    LET pluginNames == DOMAIN plugins
        r == unloadAllStart(M, pluginNames)
    IN  /\ BagCardinality(tasks) + BagCardinality(r.spawned) <= MaxTasks
        /\ SetM(r.m)
        /\ tasks' = tasks (+) r.spawned
        /\ Call("unloadAll", 0, [names |-> pluginNames], Returned(NoPlugin, <<>>))

(***************************************************************************)
(* loadPluginsFromDirectory (plugin-manager.service.ts:562-625).  The      *)
(* directory is the sequence of the paths of its plugin files, in the      *)
(* order of readdir.                                                       *)
(***************************************************************************)
\* line 592: new Map(pluginModules.map(p => [p.plugin.metadata.name, p])): a
\* name keeps the place of its first file and the module of its last
remainingPlugins(pluginModules) ==
    LET nameOf(i) == modules[pluginModules[i]].metadata.name
        indices == [i \in DOMAIN pluginModules |-> i]
        first == SelectSeq(indices, LAMBDA i : \A j \in 1..(i - 1) : nameOf(j) # nameOf(i))
        last(i) == CHOOSE j \in DOMAIN pluginModules :
                       /\ nameOf(j) = nameOf(i)
                       /\ \A k \in DOMAIN pluginModules : nameOf(k) = nameOf(i) => k <= j
    IN  [n \in DOMAIN first |-> pluginModules[last(first[n])]]

\* lines 594-620 up to the next call of loadPlugin: [next, path, bulk] with
\* next "load" (line 605, for path), "return" or "throw" (line 618)
RECURSIVE scanPass(_)
scanPass(bulk) ==
    IF bulk.rest # <<>>
    THEN LET pluginPath == Head(bulk.rest)
             dependencies == modules[pluginPath].metadata.dependencies
             allDependenciesLoaded ==
                 \A dep \in Range(dependencies) : dep \in bulk.loadedPlugins
             visited == [bulk EXCEPT !.rest = Tail(@)]
         IN  IF allDependenciesLoaded
             THEN [next |-> "load", path |-> pluginPath, bulk |-> visited]
             ELSE scanPass(visited)
    ELSE IF ~bulk.loadedAny /\ bulk.remaining # <<>>
    THEN [next |-> "throw", path |-> "", bulk |-> bulk]
    ELSE IF bulk.remaining = <<>>
    THEN [next |-> "return", path |-> "", bulk |-> bulk]
    ELSE scanPass([bulk EXCEPT !.rest = bulk.remaining, !.loadedAny = FALSE])

\* the names that DependencyResolutionError lists (line 618)
unresolvedPlugins(bulk) ==
    [i \in DOMAIN bulk.remaining |-> modules[bulk.remaining[i]].metadata.name]

\* lines 621-624: what the caller receives for an error thrown in the body
directoryError(error) == "Error"

\* room for a call that loads a directory: one such call at a time, and
\* fewer than MaxBulkLoads contexts in all
BulkRoom(directory) ==
    /\ TaskRoom
    /\ \A t \in BagToSet(tasks) : t.op # "loadPluginsFromDirectory"
    /\ Len(contexts) + Len(directory) <= MaxBulkLoads

\* loadPluginsFromDirectory(directory) up to its first await (line 564)
CallLoadPluginsFromDirectory(directory) ==
    /\ BulkRoom(directory)
    /\ Spawn([Task("loadPluginsFromDirectory", "scan", "done", "", NoOverrides,
                   <<>>, NoPlugin, 0)
              EXCEPT !.bulk.pluginModules = directory])
    /\ UNCHANGED <<managerVars, contexts, unloadBegun, unloadDone, emitted,
                   lastOverrideCall>>
    /\ lastCall' = NoCall

\* the loop of lines 594-620 for task t with the local variables bulk, up to
\* its next await or to its end
BulkContinue(t, bulk) ==
    LET r == scanPass(bulk)
        name == modules[r.path].metadata.name
    IN  /\ UNCHANGED <<managerVars, contexts, unloadBegun, unloadDone, emitted,
                       lastOverrideCall>>
        /\ IF r.next = "load"
           THEN /\ Resume(t, [t EXCEPT
                                 !.pc = "import", !.next = "done", !.path = r.path,
                                 !.name = name,
                                 !.resourceOverrides =
                                     storedOverrides(pluginResourceOverrides, name),
                                 !.plugin = NoPlugin, !.ctx = 0, !.bulk = r.bulk])
                /\ lastCall' = NoCall
           ELSE /\ Finish(t)
                /\ Call("loadPluginsFromDirectory", 0,
                        [pluginModules |-> bulk.pluginModules,
                         unresolved |-> unresolvedPlugins(r.bulk)],
                        IF r.next = "throw"
                        THEN Threw(directoryError("DependencyResolutionError"))
                        ELSE Returned(NoPlugin, <<>>))

\* the files have been read and imported: lines 591-593 and on
BulkAfterScan(t) ==
    /\ t.pc = "scan"
    /\ LET remaining == remainingPlugins(t.bulk.pluginModules)
       IN  BulkContinue(t, [t.bulk EXCEPT !.remaining = remaining, !.rest = remaining])

\* the loadPlugin awaited at line 605 has settled: lines 606-620 and on
BulkAfterLoad(t) ==
    /\ t.pc = "loop"
    /\ BulkContinue(t, t.bulk)

(***************************************************************************)
(* reloadPlugin (plugin-manager.service.ts:547-560) from line 553 to its   *)
(* first await, from manager state m: [m, task].  Called only where        *)
(* pluginPaths has the name.  op names the operation that made the call:   *)
(* reloadPlugin itself, or the setPluginResourceOverrides /                *)
(* clearPluginResourceOverrides that detached it.                          *)
(***************************************************************************)
reloadStartAs(op, m, name, resourceOverrides) ==
    LET pluginPath == m.pluginPaths[name]
        overrides == IF resourceOverrides.defined THEN resourceOverrides
                     ELSE storedOverrides(m.pluginResourceOverrides, name)
        r == unloadStart(m, name)
    IN  [m |-> r.m,
         task |-> IF r.suspended
                  THEN Task(op, "cleanup", "import", pluginPath, overrides,
                            name, r.plugin, 0)
                  ELSE Task(op, "import", "done", pluginPath, overrides,
                            name, NoPlugin, 0)]

reloadStart(m, name, resourceOverrides) ==
    reloadStartAs("reloadPlugin", m, name, resourceOverrides)

\* a reloadPlugin that finds no plugin
ReloadPluginNeverFound(name, resourceOverrides, maxLoads) ==
    /\ UNCHANGED <<managerVars, contexts, unloadBegun, unloadDone, emitted,
                   lastOverrideCall, tasks>>
    /\ Call("reloadPlugin", 0, [name |-> name], Threw("PluginNotFoundError"))

\* reloadPlugin(name, resourceOverrides) while fewer than maxLoads contexts
\* have been or will be created; a name without a recorded path is rejected
\* with PluginNotFoundError (line 551) and nothing changes
ReloadPluginWithin(name, resourceOverrides, maxLoads) ==
    IF has(pluginPaths, name)
    THEN /\ LoadRoomWithin(maxLoads)
         /\ LET r == reloadStart(M, name, resourceOverrides)
            IN  SetM(r.m) /\ Spawn(r.task)
         /\ lastCall' = NoCall
    ELSE /\ UNCHANGED <<managerVars, contexts, unloadBegun, unloadDone, emitted,
                        lastOverrideCall, tasks>>
         /\ Call("reloadPlugin", 0, [name |-> name], Threw("PluginNotFoundError"))

CallReloadPlugin(name, resourceOverrides) ==
    ReloadPluginWithin(name, resourceOverrides, MaxLoads)

\* setPluginResourceOverrides(name, overrides), lines 640-649
SetOverridesWithin(name, overrides, maxLoads) ==
    LET m1 == [M EXCEPT !.pluginResourceOverrides = mapSet(@, name, overrides),
                        !.lastOverrideCall =
                            mapSet(@, name, [op |-> "setPluginResourceOverrides",
                                             overrides |-> overrides])]
    IN  /\ IF has(plugins, name)
           THEN /\ LoadRoomWithin(maxLoads)
                /\ LET r == reloadStartAs("setPluginResourceOverrides", m1, name,
                                          overrides)
                   IN  SetM(r.m) /\ Spawn(r.task)
           ELSE SetM(m1) /\ UNCHANGED tasks
        /\ Call("setPluginResourceOverrides", 0, [name |-> name],
                Returned(NoPlugin, <<>>))

setPluginResourceOverrides(name, overrides) ==
    SetOverridesWithin(name, overrides, MaxLoads)

\* clearPluginResourceOverrides(name), lines 661-670
ClearOverridesWithin(name, maxLoads) ==
    LET m1 == [M EXCEPT !.pluginResourceOverrides = mapDelete(@, name),
                        !.lastOverrideCall =
                            mapSet(@, name, [op |-> "clearPluginResourceOverrides",
                                             overrides |-> NoOverrides])]
    IN  /\ IF has(plugins, name)
           THEN /\ LoadRoomWithin(maxLoads)
                /\ LET r == reloadStartAs("clearPluginResourceOverrides", m1, name,
                                          NoOverrides)
                   IN  SetM(r.m) /\ Spawn(r.task)
           ELSE SetM(m1) /\ UNCHANGED tasks
        /\ Call("clearPluginResourceOverrides", 0, [name |-> name],
                Returned(NoPlugin, <<>>))

clearPluginResourceOverrides(name) ==
    ClearOverridesWithin(name, MaxLoads)

\* getPluginResourceOverrides(name), lines 654-656
getPluginResourceOverrides(name) ==
    /\ UNCHANGED <<managerVars, contexts, unloadBegun, unloadDone, emitted,
                   lastOverrideCall, tasks>>
    /\ Call("getPluginResourceOverrides", 0, [name |-> name],
            Returned(storedOverrides(pluginResourceOverrides, name), <<>>))

(***************************************************************************)
(* Calls of plugin code through a context it was handed                    *)
(* (plugin-manager.service.ts:342-414).  The outcome of a call is          *)
(*   [error, returned, delivered]: the error thrown ("none": the call      *)
(*   returned), the value returned, the listeners an emit has invoked.     *)
(***************************************************************************)
Events == {"e"}

\* a validity check that also requires the declared dependencies to be
\* registered
checkValidDependencies(m, pluginName) ==
    /\ pluginName \notin m.invalidatedPlugins
    /\ has(m.pluginDependencies, pluginName)
           => \A d \in m.pluginDependencies[pluginName] : has(m.plugins, d)

\* checkValid(): TRUE = returns
checkValid(m, pluginName) == pluginName \notin m.invalidatedPlugins

\* a listener id not in use
freeListenerIds == (1..MaxListeners) \ {busListeners[i].id : i \in DOMAIN busListeners}

HandedContexts == {c \in DOMAIN contexts : contexts[c].handed}

\* the source filter left out
deliveredToAll(m, event, source) ==
    LET hit == SelectSeq(m.busListeners, LAMBDA l : l.event = event)
    IN  [i \in DOMAIN hit |-> hit[i].id]

\* the wrapped listeners of an event whose source filter lets the payload
\* through, in registration order
deliveredTo(m, event, source) ==
    LET hit == SelectSeq(m.busListeners,
                         LAMBDA l : l.event = event /\ l.pluginName # source)
    IN  [i \in DOMAIN hit |-> hit[i].id]

\* eventBus.emit(event, data): a once-listener of the event is removed by
\* the emitter when it is called, whatever its filter decides
eventBusEmit(c, event) ==
    LET pluginName == contexts[c].pluginName
    IN  /\ c \in HandedContexts
        /\ IF ~checkValid(M, pluginName)
           THEN Call("eventBus.emit", c, event, Threw("ContextInvalid")) /\ SetM(M)
           ELSE /\ Call("eventBus.emit", c, event,
                        Returned(NoPlugin, deliveredTo(M, event, pluginName)))
                /\ SetM([M EXCEPT !.busListeners =
                            SelectSeq(@, LAMBDA l : ~(l.event = event /\ l.once))])
        /\ UNCHANGED tasks

\* eventBus.on(event, listener)
eventBusOn(c, event) ==
    LET pluginName == contexts[c].pluginName
    IN  /\ c \in HandedContexts
        /\ IF ~checkValid(M, pluginName)
           THEN Call("eventBus.on", c, event, Threw("ContextInvalid")) /\ SetM(M)
           ELSE \E id \in freeListenerIds :
                  LET wrappedListener == [id |-> id, event |-> event,
                                          pluginName |-> pluginName, ctx |-> c,
                                          once |-> FALSE]
                      byEvent == IF has(pluginListeners, pluginName)
                                 THEN pluginListeners[pluginName] ELSE EmptyFn
                      listeners == IF has(byEvent, event) THEN byEvent[event] ELSE {}
                  IN  /\ id = CHOOSE i \in freeListenerIds :
                                 \A j \in freeListenerIds : i <= j
                      /\ Call("eventBus.on", c, event, Returned(NoPlugin, <<>>))
                      /\ SetM([M EXCEPT
                            !.busListeners = Append(@, wrappedListener),
                            !.pluginListeners =
                                mapSet(@, pluginName,
                                       mapSet(byEvent, event, listeners \cup {id}))])
        /\ UNCHANGED tasks

\* eventBus.off(event, listener), for a listener the plugin has registered
\* (given by the id of its wrapper): the argument is not read; every
\* recorded listener of the event is taken off the bus, and the record of
\* the event emptied
eventBusOff(c, event, listener) ==
    LET pluginName == contexts[c].pluginName
        byEvent == IF has(pluginListeners, pluginName)
                   THEN pluginListeners[pluginName] ELSE EmptyFn
        listeners == IF has(byEvent, event) THEN byEvent[event] ELSE {}
    IN  /\ c \in HandedContexts
        /\ IF ~checkValid(M, pluginName)
           THEN Call("eventBus.off", c, [event |-> event, listener |-> listener],
                     Threw("ContextInvalid")) /\ SetM(M)
           ELSE /\ Call("eventBus.off", c, [event |-> event, listener |-> listener],
                        Returned(NoPlugin, <<>>))
                /\ SetM([M EXCEPT
                      !.busListeners = SelectSeq(@, LAMBDA l : l.id \notin listeners),
                      !.pluginListeners =
                          IF has(byEvent, event)
                          THEN mapSet(@, pluginName, mapSet(byEvent, event, {}))
                          ELSE @])
        /\ UNCHANGED tasks

\* eventBus.once(event, listener): the listener is not recorded in
\* pluginListeners
eventBusOnce(c, event) ==
    LET pluginName == contexts[c].pluginName
    IN  /\ c \in HandedContexts
        /\ IF ~checkValid(M, pluginName)
           THEN Call("eventBus.once", c, event, Threw("ContextInvalid")) /\ SetM(M)
           ELSE \E id \in freeListenerIds :
                  /\ id = CHOOSE i \in freeListenerIds :
                             \A j \in freeListenerIds : i <= j
                  /\ Call("eventBus.once", c, event, Returned(NoPlugin, <<>>))
                  /\ SetM([M EXCEPT !.busListeners =
                              Append(@, [id |-> id, event |-> event,
                                         pluginName |-> pluginName, ctx |-> c,
                                         once |-> TRUE])])
        /\ UNCHANGED tasks

\* the declared list not consulted
getDependencyOfAny(c, name) ==
    LET ctx == contexts[c]
    IN  /\ c \in HandedContexts
        /\ Call("getDependency", c, name,
                IF ~checkValid(M, ctx.pluginName) THEN Threw("ContextInvalid")
                ELSE IF has(plugins, name) THEN Returned(plugins[name], <<>>)
                ELSE Returned(NoPlugin, <<>>))
        /\ UNCHANGED <<managerVars, contexts, unloadBegun, unloadDone, emitted,
                 lastOverrideCall, tasks>>

\* context.getDependency(name)
getDependency(c, name) ==
    LET ctx == contexts[c]
    IN  /\ c \in HandedContexts
        /\ Call("getDependency", c, name,
                IF ~checkValid(M, ctx.pluginName) THEN Threw("ContextInvalid")
                ELSE IF name \notin Range(ctx.dependencies)
                THEN Threw("UndeclaredDependencyError")
                ELSE IF has(ctx.dependencyPlugins, name)
                THEN Returned(ctx.dependencyPlugins[name], <<>>)
                ELSE Returned(NoPlugin, <<>>))
        /\ UNCHANGED <<managerVars, contexts, unloadBegun, unloadDone, emitted,
                 lastOverrideCall, tasks>>

\* context.getDependencies()
getDependencies(c) ==
    LET ctx == contexts[c]
    IN  /\ c \in HandedContexts
        /\ Call("getDependencies", c, <<>>,
                IF ~checkValid(M, ctx.pluginName) THEN Threw("ContextInvalid")
                ELSE Returned(ctx.dependencyPlugins, <<>>))
        /\ UNCHANGED <<managerVars, contexts, unloadBegun, unloadDone, emitted,
                 lastOverrideCall, tasks>>

(***************************************************************************)
(* The lifecycle specification: plugins are loaded, unloaded and reloaded  *)
(* while plugin code uses the event bus and the dependency accessors of    *)
(* the contexts it holds.                                                  *)
(***************************************************************************)
Next ==
    \/ \E pluginPath \in Paths : CallLoadPlugin(pluginPath, NoOverrides)
    \/ \E t \in BagToSet(tasks) : LoadAfterImport(t)
    \/ \E t \in BagToSet(tasks) : LoadAfterUnload(t)
    \/ \E t \in BagToSet(tasks) : LoadAfterInitialize(t)
    \/ \E t \in BagToSet(tasks) : LoadInitializeThrows(t)
    \/ \E name \in PluginNames : CallUnloadPlugin(name)
    \/ \E t \in BagToSet(tasks) : UnloadAfterCleanup(t)
    \/ \E t \in BagToSet(tasks) : UnloadCleanupThrows(t)
    \/ \E name \in PluginNames : CallReloadPlugin(name, NoOverrides)
    \/ \E c \in DOMAIN contexts, event \in Events : eventBusEmit(c, event)
    \/ \E c \in DOMAIN contexts, event \in Events : eventBusOn(c, event)
    \/ \E c \in DOMAIN contexts, event \in Events, listener \in 1..MaxListeners :
          eventBusOff(c, event, listener)
    \/ \E c \in DOMAIN contexts, event \in Events : eventBusOnce(c, event)
    \/ \E c \in DOMAIN contexts, name \in PluginNames : getDependency(c, name)
    \/ \E c \in DOMAIN contexts : getDependencies(c)

Spec == Init /\ [][Next]_vars

(***************************************************************************)
(* Calls of plugin code on the repositories of a context it was handed     *)
(* (context.s3, context.kafka, context.database).  No repository method    *)
(* reads the manager's state.                                              *)
(***************************************************************************)
TopicZ == <<"z">>
TableZ == <<"z">>
From(table) == <<"f","r","o","m"," ">> \o table

\* what the plugins of this specification ask for
BucketRequests == {BucketDat}
TopicRequests == {TopicE}
SubscribeRequests == {<<TopicE, TopicZ>>}
SqlRequests == {From(TableM)}

\* the plugin whose resources this specification exercises
ResourcePaths == {"pa"}
ResourceNames == {modules[p].metadata.name : p \in ResourcePaths}

\* s3.upload / download / delete / listObjects / getObjectMetadata /
\* getObjectMetadataOnly(bucket, ...)
s3Call(c, bucket) ==
    /\ c \in HandedContexts
    /\ Call("s3", c, bucket, s3Operation(contexts[c].s3, bucket))
    /\ UNCHANGED <<managerVars, contexts, unloadBegun, unloadDone, emitted,
                 lastOverrideCall, tasks>>

\* kafka.sendMessage(topic, messages)
kafkaSendMessage(c, topic) ==
    /\ c \in HandedContexts
    /\ Call("kafka.sendMessage", c, topic, sendMessage(contexts[c].kafka, topic))
    /\ UNCHANGED <<managerVars, contexts, unloadBegun, unloadDone, emitted,
                 lastOverrideCall, tasks>>

\* kafka.subscribe(topics, groupId, handler)
kafkaSubscribe(c, topics) ==
    /\ c \in HandedContexts
    /\ Call("kafka.subscribe", c, topics, subscribe(contexts[c].kafka, topics))
    /\ UNCHANGED <<managerVars, contexts, unloadBegun, unloadDone, emitted,
                 lastOverrideCall, tasks>>

\* database.executeQuery / executeCommand(querySql, params)
databaseExecute(c, querySql) ==
    /\ c \in HandedContexts
    /\ Call("database", c, querySql, executeQuery(contexts[c].database, querySql))
    /\ UNCHANGED <<managerVars, contexts, unloadBegun, unloadDone, emitted,
                 lastOverrideCall, tasks>>

(***************************************************************************)
(* The resource specification: plugins are loaded, unloaded and reloaded   *)
(* with and without resource overrides, overrides are set and cleared, and *)
(* plugin code uses the repositories of the contexts it holds.             *)
(***************************************************************************)
ResourceNext ==
    \/ \E pluginPath \in ResourcePaths, o \in OverrideArgs : CallLoadPlugin(pluginPath, o)
    \/ \E t \in BagToSet(tasks) : LoadAfterImport(t)
    \/ \E t \in BagToSet(tasks) : LoadAfterUnload(t)
    \/ \E t \in BagToSet(tasks) : LoadAfterInitialize(t)
    \/ \E t \in BagToSet(tasks) : LoadInitializeThrows(t)
    \/ \E name \in ResourceNames : CallUnloadPlugin(name)
    \/ \E t \in BagToSet(tasks) : UnloadAfterCleanup(t)
    \/ \E t \in BagToSet(tasks) : UnloadCleanupThrows(t)
    \/ \E name \in ResourceNames, o \in OverrideArgs : CallReloadPlugin(name, o)
    \/ \E name \in ResourceNames, o \in OverrideValues : setPluginResourceOverrides(name, o)
    \/ \E name \in ResourceNames : clearPluginResourceOverrides(name)
    \/ \E c \in DOMAIN contexts, bucket \in BucketRequests : s3Call(c, bucket)
    \/ \E c \in DOMAIN contexts, topic \in TopicRequests : kafkaSendMessage(c, topic)
    \/ \E c \in DOMAIN contexts, topics \in SubscribeRequests : kafkaSubscribe(c, topics)
    \/ \E c \in DOMAIN contexts, querySql \in SqlRequests : databaseExecute(c, querySql)

ResourceSpec == Init /\ [][ResourceNext]_vars

(***************************************************************************)
(* The access specification: plugins, among them two whose names and       *)
(* resource names share characters, are loaded with and without overrides, *)
(* and plugin code asks the repositories of its context for declared,      *)
(* undeclared, mapped, prefixed, upper-case and system names.              *)
(***************************************************************************)
AccessPaths == {"pa", "pc"}
AccessOverrides == {NoOverrides, OverridesMapped, OverridesBuckets}

AccessBuckets == {BucketDat, BucketLog, BucketXyz, NameA \o <<"_">> \o BucketDat, <<>>}
AccessTopics == {TopicE, TopicBC, TopicC, TopicZ, NameA \o <<"_">> \o TopicE}
AccessSubscriptions == {<<TopicE, TopicBC>>, <<TopicE, TopicZ>>, <<TopicZ, TopicE>>}
\* the statements asked: FROM t, or FROM t JOIN t2, for these lists of tables
Statement(tables) ==
    From(tables[1]) \o (IF Len(tables) > 1
                        THEN <<" ","j","o","i","n"," ">> \o tables[2] ELSE <<>>)
AccessStatements ==
    {<<TableM>>, << <<"M">> >>, <<TableAA>>, <<TableBC>>, <<TableC>>, <<TableZ>>,
     << <<"p","g","_","x">> >>, <<TableBC, TableZ>>}
AccessSql == {Statement(tables) : tables \in AccessStatements}

\* the answer of s3.getAllowedBuckets(), kafka.getAllowedTopics() or
\* database.getAllowedTables()
Listed(names) ==
    [error |-> "none", attempted |-> <<>>, listed |-> names, invoked |-> FALSE,
     handed |-> <<>>]

getAllowed(c, kind) ==
    /\ c \in HandedContexts
    /\ Call("getAllowed", c, kind,
            Listed(CASE kind = "table" -> getAllowedTables(contexts[c].database)
                     [] kind = "topic" -> getAllowedTopics(contexts[c].kafka)
                     [] kind = "bucket" -> getAllowedBuckets(contexts[c].s3)))
    /\ UNCHANGED <<managerVars, contexts, unloadBegun, unloadDone, emitted,
                 lastOverrideCall, tasks>>

AccessNext ==
    \/ \E pluginPath \in AccessPaths, o \in AccessOverrides : CallLoadPlugin(pluginPath, o)
    \/ \E t \in BagToSet(tasks) : LoadAfterImport(t)
    \/ \E t \in BagToSet(tasks) : LoadAfterUnload(t)
    \/ \E t \in BagToSet(tasks) : LoadAfterInitialize(t)
    \/ \E t \in BagToSet(tasks) : UnloadAfterCleanup(t)
    \/ \E c \in DOMAIN contexts, bucket \in AccessBuckets : s3Call(c, bucket)
    \/ \E c \in DOMAIN contexts, topic \in AccessTopics : kafkaSendMessage(c, topic)
    \/ \E c \in DOMAIN contexts, topics \in AccessSubscriptions : kafkaSubscribe(c, topics)
    \/ \E c \in DOMAIN contexts, querySql \in AccessSql : databaseExecute(c, querySql)
    \/ \E c \in DOMAIN contexts, kind \in Kinds : getAllowed(c, kind)

AccessSpec == Init /\ [][AccessNext]_vars

(***************************************************************************)
(* The dependency specification: modules that depend on each other and on  *)
(* themselves are loaded and unloaded, with room for each of two plugins   *)
(* to be loaded twice.                                                     *)
(***************************************************************************)
DependencyPaths == {"pa", "pb", "pd", "pe", "pf"}
DependencyNames == {modules[p].metadata.name : p \in DependencyPaths}
MaxDependencyLoads == 4

CallLoadDependent(pluginPath) ==
    LoadPluginWithin(pluginPath, NoOverrides, MaxDependencyLoads)

DependencyNext ==
    \/ \E pluginPath \in DependencyPaths : CallLoadDependent(pluginPath)
    \/ \E t \in BagToSet(tasks) : LoadAfterImport(t)
    \/ \E t \in BagToSet(tasks) : LoadAfterUnload(t)
    \/ \E t \in BagToSet(tasks) : LoadAfterInitialize(t)
    \/ \E t \in BagToSet(tasks) : LoadInitializeThrows(t)
    \/ \E name \in DependencyNames : CallUnloadPlugin(name)
    \/ \E t \in BagToSet(tasks) : UnloadAfterCleanup(t)
    \/ \E t \in BagToSet(tasks) : UnloadCleanupThrows(t)

DependencySpec == Init /\ [][DependencyNext]_vars

(***************************************************************************)
(* The override specification: the operator sets, clears and reads the     *)
(* overrides of one plugin and loads, reloads and unloads it, without      *)
(* waiting for the reloads that set and clear detach; there is room for    *)
(* the first load and one reload.  The hooks of the plugin never throw, so *)
(* that no load, unload or reload fails.                                   *)
(***************************************************************************)
OverridePaths == {"pa"}
OverrideNames == {modules[p].metadata.name : p \in OverridePaths}
MaxOverrideLoads == 2

CallLoadOverridden(pluginPath, resourceOverrides) ==
    LoadPluginWithin(pluginPath, resourceOverrides, MaxOverrideLoads)

CallSetOverrides(name, overrides) ==
    SetOverridesWithin(name, overrides, MaxOverrideLoads)

CallClearOverrides(name) == ClearOverridesWithin(name, MaxOverrideLoads)

CallReloadStored(name) == ReloadPluginWithin(name, NoOverrides, MaxOverrideLoads)

OverrideNext ==
    \/ \E pluginPath \in OverridePaths : CallLoadOverridden(pluginPath, NoOverrides)
    \/ \E name \in OverrideNames : CallSetOverrides(name, OverridesMapped)
    \/ \E name \in OverrideNames : CallClearOverrides(name)
    \/ \E name \in OverrideNames : getPluginResourceOverrides(name)
    \/ \E name \in OverrideNames : CallReloadStored(name)
    \/ \E name \in OverrideNames : CallUnloadPlugin(name)
    \/ CallUnloadAll
    \/ \E t \in BagToSet(tasks) : LoadAfterImport(t)
    \/ \E t \in BagToSet(tasks) : LoadAfterUnload(t)
    \/ \E t \in BagToSet(tasks) : LoadAfterInitialize(t)
    \/ \E t \in BagToSet(tasks) : UnloadAfterCleanup(t)

OverrideSpec == Init /\ [][OverrideNext]_vars

(***************************************************************************)
(* The directory specification: directories of plugins are loaded, one at  *)
(* a time, and plugins are unloaded one by one or all at once.             *)
(***************************************************************************)
Directories == {<<"pg", "pa">>, <<"pg">>, <<"pa">>}
DirectoryNames == {NameA, NameB}

DirectoryNext ==
    \/ \E directory \in Directories : CallLoadPluginsFromDirectory(directory)
    \/ \E t \in BagToSet(tasks) : BulkAfterScan(t)
    \/ \E t \in BagToSet(tasks) : BulkAfterLoad(t)
    \/ \E t \in BagToSet(tasks) : LoadAfterImport(t)
    \/ \E t \in BagToSet(tasks) : LoadAfterUnload(t)
    \/ \E t \in BagToSet(tasks) : LoadAfterInitialize(t)
    \/ \E t \in BagToSet(tasks) : LoadInitializeThrows(t)
    \/ \E name \in DirectoryNames : CallUnloadPlugin(name)
    \/ CallUnloadAll
    \/ \E t \in BagToSet(tasks) : UnloadAfterCleanup(t)
    \/ \E t \in BagToSet(tasks) : UnloadCleanupThrows(t)

DirectorySpec == Init /\ [][DirectoryNext]_vars

\* a cleanup hook that an unloadPlugin of unloadAll has called settles, and
\* the unloadPlugin that awaits it is resumed
CleanupSettles(name) ==
    \E t \in BagToSet(tasks) :
        /\ t.op = "unloadAll" /\ t.name = name
        /\ UnloadAfterCleanup(t) \/ UnloadCleanupThrows(t)

FairDirectorySpec ==
    DirectorySpec /\ \A name \in DirectoryNames : WF_vars(CleanupSettles(name))

\* the loadPluginsFromDirectory in progress goes on: the promise it awaits
\* (readdir and import, the loadPlugin of line 605 and the hooks that one
\* awaits) settles and the continuation runs
BulkProgress ==
    \E t \in BagToSet(tasks) :
        /\ t.op = "loadPluginsFromDirectory"
        /\ \/ BulkAfterScan(t) \/ BulkAfterLoad(t)
           \/ LoadAfterImport(t) \/ LoadAfterUnload(t)
           \/ LoadAfterInitialize(t) \/ LoadInitializeThrows(t)
           \/ UnloadAfterCleanup(t) \/ UnloadCleanupThrows(t)

FairBulkSpec == DirectorySpec /\ WF_vars(BulkProgress)

(***************************************************************************)
(* Context invalidation.                                                   *)
(***************************************************************************)
ContextApis ==
    {"eventBus.emit", "eventBus.on", "eventBus.off", "eventBus.once",
     "getDependency", "getDependencies"}
RepositoryApis == {"s3", "kafka.sendMessage", "kafka.subscribe", "database"}

\* the context of the last call belongs to a load whose cleanup hook is
\* running or suspended now
CalledDuringCleanup ==
    \E t \in BagToSet(tasks) : t.pc = "cleanup" /\ t.plugin.load = lastCall.ctx

\* C1: once the unloadPlugin of a plugin instance has completed, every call
\* of eventBus.emit/on/off/once, getDependency or getDependencies through the
\* context that was handed to that instance throws the invalidity error.
C1_PermanentInvalidation ==
    (lastCall.api \in ContextApis /\ lastCall.ctx \in unloadDone)
        => lastCall.outcome.error = "ContextInvalid"

\* C2: a call of the event bus or of a dependency accessor made through a
\* plugin's context while the cleanup hook of its unloadPlugin is running or
\* suspended throws the invalidity error.
C2_InvalidDuringCleanup ==
    (lastCall.api \in ContextApis /\ CalledDuringCleanup)
        => lastCall.outcome.error = "ContextInvalid"

\* C3: once unloadPlugin has begun for a plugin instance, every repository
\* operation through the context handed to that instance fails and the
\* backing service is not called.
C3_RepositoriesDieWithContext ==
    (lastCall.api \in RepositoryApis /\ lastCall.ctx \in unloadBegun)
        => (lastCall.outcome.error # "none" /\ ~lastCall.outcome.invoked)

(***************************************************************************)
(* Resource confinement.  The definitions below state the naming scheme    *)
(* on their own, without the operators of the repositories.                *)
(***************************************************************************)
\* the override a context was built under: the argument of loadPlugin, or
\* else the stored one
InForce(ctx) == IF ctx.resourceOverrides.defined THEN ctx.resourceOverrides ELSE ctx.stored

\* the unprefixed list a context was built from, and the name map in force
EffectiveList(ctx, kind) ==
    IF InForce(ctx).defined /\ overrideList(InForce(ctx), kind).some
    THEN overrideList(InForce(ctx), kind).v
    ELSE metadataList(ctx.metadata, kind)
EffectiveMap(ctx, kind) ==
    IF InForce(ctx).defined /\ overrideMap(InForce(ctx), kind).some
    THEN overrideMap(InForce(ctx), kind).v
    ELSE EmptyMap

\* p + "_" + (nameMap[n] if n is mapped, else n)
ActualName(ctx, kind, n) ==
    ctx.pluginName \o <<"_">> \o
        (IF n \in DOMAIN EffectiveMap(ctx, kind) THEN EffectiveMap(ctx, kind)[n] ELSE n)

\* the allowed set computed when the context was created
AllowedSet(ctx, kind) ==
    CASE kind = "table" -> Range(ctx.allowedTables)
      [] kind = "topic" -> Range(ctx.allowedTopics)
      [] kind = "bucket" -> Range(ctx.allowedBuckets)

\* the kind of resource an operation is about, and the names its request
\* carries, in order
KindOf(api) ==
    CASE api = "s3" -> "bucket"
      [] api \in {"kafka.sendMessage", "kafka.subscribe"} -> "topic"
      [] api = "database" -> "table"
RequestedNames(call) ==
    CASE call.api \in {"s3", "kafka.sendMessage"} -> <<call.request>>
      [] call.api = "kafka.subscribe" -> call.request
      [] call.api = "database" ->
            CHOOSE tables \in AccessStatements : Statement(tables) = call.request

\* what the backing service is called with when every requested name n is
\* replaced by name(n)
Handing(call, name(_)) ==
    LET names == RequestedNames(call)
        actual == [i \in DOMAIN names |-> name(names[i])]
    IN  IF call.api = "database" THEN Statement(actual) ELSE actual

AccessDeniedError(api) ==
    CASE KindOf(api) = "bucket" -> "BucketAccessDenied"
      [] KindOf(api) = "topic" -> "TopicAccessDenied"
      [] KindOf(api) = "table" -> "TableAccessDenied"

\* a name the database proxy leaves alone by design: a system-catalog name
\* or one of the reserved words that can follow a table keyword
SystemName(kind, n) ==
    kind = "table" /\ (startsWith(toLowerCase(n), <<"p","g","_">>)
                       \/ toLowerCase(n) \in sqlKeywords)

\* the actual name a requested name stands for: table names are
\* case-insensitive, the name map applies, and a name that already carries
\* the plugin's prefix stands for itself
ResolvedName(ctx, kind, n) ==
    LET key == IF kind = "table" THEN toLowerCase(n) ELSE n
        mapped == IF key \in DOMAIN EffectiveMap(ctx, kind)
                  THEN EffectiveMap(ctx, kind)[key] ELSE key
    IN  IF SystemName(kind, n) THEN n
        ELSE IF startsWith(mapped, ctx.pluginName \o <<"_">>) THEN mapped
        ELSE ctx.pluginName \o <<"_">> \o mapped

\* C4: whenever a repository operation calls the backing service, every
\* resource name it hands over is p_(nameMap[n] or n) for the requested name
\* n, and is a member of the allowed set computed at context creation.
\* (Stated with the proxies' documented conventions granted: system names
\* pass as they are, an already prefixed name stands for itself, table names
\* are lower-cased.)
C4_CapabilityConfinement ==
    (lastCall.api \in RepositoryApis /\ lastCall.outcome.invoked) =>
        LET ctx == contexts[lastCall.ctx]
            kind == KindOf(lastCall.api)
            name(n) == ResolvedName(ctx, kind, n)
        IN  /\ lastCall.outcome.handed = Handing(lastCall, name)
            /\ \A i \in DOMAIN RequestedNames(lastCall) :
                  \/ SystemName(kind, RequestedNames(lastCall)[i])
                  \/ name(RequestedNames(lastCall)[i]) \in AllowedSet(ctx, kind)

\* C5: for a plugin loaded with no override, an operation on one name t that
\* passes the naming validator reaches p_t when t is declared for that
\* resource type, and is otherwise denied with the type's AccessDenied error
\* listing exactly the declared names.  (System names are left out, and so
\* is an undeclared name that already carries the plugin's prefix: it stands
\* for itself.)
C5_DeclaredAccess ==
    LET ctx == contexts[lastCall.ctx]
        kind == KindOf(lastCall.api)
        names == RequestedNames(lastCall)
        t == names[1]
        declared == Range(metadataList(ctx.metadata, kind))
        plain(n) == ctx.pluginName \o <<"_">> \o n
    IN  (/\ lastCall.api \in RepositoryApis
         /\ ~InForce(ctx).defined
         /\ Len(names) = 1
         /\ validateName(kind, t)
         /\ ~SystemName(kind, t))
        => IF t \in declared
           THEN /\ lastCall.outcome.invoked
                /\ lastCall.outcome.handed = Handing(lastCall, plain)
           ELSE \/ startsWith(t, ctx.pluginName \o <<"_">>)
                \/ /\ lastCall.outcome.error = AccessDeniedError(lastCall.api)
                   /\ lastCall.outcome.listed = declared

\* C6: the actual table, topic and bucket names that two registered plugins
\* of different names can reach are disjoint.
C6_CrossPluginIsolation ==
    \A p \in DOMAIN plugins, q \in DOMAIN plugins :
        p # q => \A kind \in Kinds :
                    AllowedSet(contexts[plugins[p].load], kind)
                        \cap AllowedSet(contexts[plugins[q].load], kind) = {}

(***************************************************************************)
(* Denial, the effective allowed set, introspection, accepted names.       *)
(***************************************************************************)
\* the actual name a requested name stands for when no name is exempt
StandsFor(ctx, kind, n) ==
    LET key == IF kind = "table" THEN toLowerCase(n) ELSE n
        mapped == IF key \in DOMAIN EffectiveMap(ctx, kind)
                  THEN EffectiveMap(ctx, kind)[key] ELSE key
    IN  IF startsWith(mapped, ctx.pluginName \o <<"_">>) THEN mapped
        ELSE ctx.pluginName \o <<"_">> \o mapped

\* the requested names of the last call that lie outside the allowed set;
\* exempt(n): the name is not looked at
NamesOutside(exempt(_)) ==
    LET ctx == contexts[lastCall.ctx]
        kind == KindOf(lastCall.api)
        names == RequestedNames(lastCall)
    IN  {names[i] : i \in {j \in DOMAIN names :
            /\ ~exempt(names[j])
            /\ \/ names[j] = <<>>
               \/ StandsFor(ctx, kind, names[j]) \notin AllowedSet(ctx, kind)}}

\* the last call was rejected with the AccessDenied error of its resource
\* type, naming one of the names in bad, and the backing service was not called
CleanlyDenied(bad) ==
    /\ lastCall.outcome.error = AccessDeniedError(lastCall.api)
    /\ ~lastCall.outcome.invoked
    /\ \E n \in bad :
          lastCall.outcome.attempted =
              (IF KindOf(lastCall.api) = "table" THEN toLowerCase(n) ELSE n)

C8_EffectiveAllowedSet ==
    \A c \in DOMAIN contexts :
        LET ctx == contexts[c]
            expected(kind) ==
                {ActualName(ctx, kind, n) : n \in Range(EffectiveList(ctx, kind))}
        IN  /\ \A kind \in Kinds : AllowedSet(ctx, kind) = expected(kind)
            /\ ctx.s3.allowed = expected("bucket")
            /\ ctx.kafka.allowed = expected("topic")
            /\ ctx.database.allowed = {toLowerCase(t) : t \in expected("table")}

\* a context built under a stored override that maps a table, and whose
\* empty bucket list leaves no bucket
C8_Witness ==
    \E c \in DOMAIN contexts :
        /\ ~contexts[c].resourceOverrides.defined
        /\ contexts[c].stored = OverridesMapped
        /\ contexts[c].s3.allowed = {}
        /\ contexts[c].database.allowed = {NameA \o <<"_">> \o TableAc}

\* C9 as stated: getAllowedTables / getAllowedTopics / getAllowedBuckets
\* report the declared, pre-mapping names.
C9_ReportsDeclaredNames ==
    lastCall.api = "getAllowed" =>
        lastCall.outcome.listed =
            Range(EffectiveList(contexts[lastCall.ctx], lastCall.request))

\* C9: getAllowedTables / getAllowedTopics / getAllowedBuckets report the
\* names after mapping, without the plugin's prefix.
C9_ReportsMappedNames ==
    lastCall.api = "getAllowed" =>
        LET ctx == contexts[lastCall.ctx]
            kind == lastCall.request
            m == EffectiveMap(ctx, kind)
        IN  lastCall.outcome.listed =
                {IF n \in DOMAIN m THEN m[n] ELSE n : n \in Range(EffectiveList(ctx, kind))}

\* getAllowedTables() of a plugin loaded with a table list and a table name map
C9_Witness ==
    /\ lastCall.api = "getAllowed"
    /\ lastCall.request = "table"
    /\ contexts[lastCall.ctx].resourceOverrides = OverridesMapped
    /\ lastCall.outcome.listed = {TableAc}

\* C10: for every plugin in the registry, its name, every name of the lists
\* its context was built from, and every source and target of the name maps
\* in force satisfy the naming rules of their type.
C10_AcceptedNamesValid ==
    \A name \in DOMAIN plugins :
        LET ctx == contexts[plugins[name].load]
        IN  /\ validatePluginName(name)
            /\ \A kind \in Kinds :
                  /\ \A n \in Range(EffectiveList(ctx, kind)) : validateName(kind, n)
                  /\ \A n \in DOMAIN EffectiveMap(ctx, kind) :
                        /\ validateName(kind, n)
                        /\ validateName(kind, EffectiveMap(ctx, kind)[n])

(***************************************************************************)
(* Validation in loadPlugin.  In a state reached by the step in which      *)
(* loadPlugin has validated a module (it has thrown a validation error, or *)
(* it has called plugin.initialize), the registry is the one validation    *)
(* saw, but for the name of the module itself.                             *)
(***************************************************************************)
ValidationErrors ==
    {"InvalidNamingConventionError", "DependencyNotFoundError", "SelfDependencyError",
     "CircularDependencyError"}

Rejected == lastCall.api = "loadPlugin" /\ lastCall.outcome.error \in ValidationErrors
Accepted == lastCall.api = "plugin.initialize"
Validated == Rejected \/ Accepted

LoadedMetadata == modules[lastCall.request.path].metadata
DeclaredDependencies == Range(LoadedMetadata.dependencies)

\* C11: when loadPlugin fails with a validation error, the call has changed
\* nothing: it has unloaded no plugin (so no cleanup hook ran and a plugin
\* loaded under that name is still loaded), and the step that throws leaves
\* the registries and the contexts as they are.
C11_AtomicReject ==
    /\ [](Rejected => lastCall.request.plugin = NoPlugin)
    /\ [][(lastCall'.api = "loadPlugin" /\ lastCall'.outcome.error \in ValidationErrors)
            => UNCHANGED <<managerVars, contexts>>]_vars

\* C12: when loadPlugin validates a module that declares a dependency on
\* another name which is not in the registry, it fails with
\* DependencyNotFoundError, the plugin is not in the registry, and the call has
\* not changed the registry (it has unloaded nothing).
C12_MissingDependency ==
    (Validated /\ \E d \in DeclaredDependencies \ {LoadedMetadata.name} : ~has(plugins, d))
        => /\ Rejected
           /\ lastCall.outcome.error = "DependencyNotFoundError"
           /\ ~has(plugins, LoadedMetadata.name)
           /\ lastCall.request.plugin = NoPlugin

\* C13: when loadPlugin validates a module whose dependency list contains
\* its own name, it fails with SelfDependencyError.
C13_SelfDependency ==
    (Validated /\ LoadedMetadata.name \in DeclaredDependencies)
        => (Rejected /\ lastCall.outcome.error = "SelfDependencyError")

\* the dependencies B of the validated module A whose recorded dependencies
\* include A
DependsBack ==
    {b \in DeclaredDependencies \ {LoadedMetadata.name} :
        has(pluginDependencies, b) /\ LoadedMetadata.name \in pluginDependencies[b]}

CircularWithBoth(bs) ==
    /\ Rejected
    /\ lastCall.outcome.error = "CircularDependencyError"
    /\ \A chain \in circularChains(M, DeclaredDependencies, {LoadedMetadata.name}) :
          LoadedMetadata.name \in chain /\ \E b \in bs : b \in chain

\* C14 as stated: when loadPlugin validates a module A that depends on B, and
\* the recorded dependencies of B include A, it fails with
\* CircularDependencyError, whose chain contains A and B.
C14_CircularRecorded ==
    (Validated /\ DependsBack # {}) => CircularWithBoth(DependsBack)

\* C14: when loadPlugin validates a module A that depends on B, B is in the
\* registry and the recorded dependencies of B include A, it fails with
\* CircularDependencyError, whose chain contains A and B.
C14_CircularLoaded ==
    (/\ Validated
     /\ DependsBack # {}
     /\ LoadedMetadata.name \notin DeclaredDependencies
     /\ \A d \in DeclaredDependencies : has(plugins, d))
        => CircularWithBoth(DependsBack)

C14_Witness ==
    /\ Rejected
    /\ lastCall.outcome.error = "CircularDependencyError"
    /\ DependsBack = {NameB}
    /\ has(plugins, NameB)

\* the names reached from a name along the recorded dependencies
RECURSIVE reaches(_, _, _)
reaches(deps, from, steps) ==
    LET direct == IF has(deps, from) THEN deps[from] ELSE {}
    IN  IF steps = 0 THEN {}
        ELSE direct \cup UNION {reaches(deps, d, steps - 1) : d \in direct}

\* the recorded dependency relation has no cycle: no name reaches itself
RecordedAcyclic ==
    \A n \in DOMAIN pluginDependencies :
        n \notin reaches(pluginDependencies, n, Cardinality(DOMAIN pluginDependencies))

\* the modules that are loaded (in the registry) or loading (their
\* initialize hook is running) under a name
LoadedOrLoading(n) ==
    {plugins[m].path : m \in DOMAIN plugins \cap {n}}
        \cup {t.path : t \in {u \in BagToSet(tasks) : u.pc = "initialize" /\ u.name = n}}

\* plugin name -> the dependency names its loaded and loading modules declare
DeclaredRelation ==
    [n \in {m \in DependencyNames : LoadedOrLoading(m) # {}} |->
        UNION {Range(modules[path].metadata.dependencies) : path \in LoadedOrLoading(n)}]

\* C15: the dependency relation over the loaded and loading plugins, as
\* recorded and as declared by the plugins, has no cycle.
C15_Acyclic ==
    /\ RecordedAcyclic
    /\ \A n \in DOMAIN DeclaredRelation :
          n \notin reaches(DeclaredRelation, n, Cardinality(DOMAIN DeclaredRelation))

(***************************************************************************)
(* Dependency access, repeated loads, listeners.                           *)
(***************************************************************************)
Undeclared ==
    /\ lastCall.api = "getDependency"
    /\ lastCall.request \notin Range(contexts[lastCall.ctx].dependencies)

\* C16 as stated: getDependency(d) for a name d that the plugin has not
\* declared always throws UndeclaredDependencyError.
C16_AlwaysUndeclaredError ==
    Undeclared => lastCall.outcome.error = "UndeclaredDependencyError"

\* C16: getDependency(d) for a name d that the plugin has not declared never
\* returns: it throws UndeclaredDependencyError while the context is valid,
\* and the invalidity error while the plugin's name is marked invalid.
C16_UndeclaredNeverReturned ==
    Undeclared =>
        lastCall.outcome.error =
            IF checkValid(M, contexts[lastCall.ctx].pluginName)
            THEN "UndeclaredDependencyError" ELSE "ContextInvalid"

\* an undeclared name that is in the registry has just been asked for
C16_Witness ==
    /\ Undeclared
    /\ has(plugins, lastCall.request)
    /\ lastCall.request # contexts[lastCall.ctx].pluginName
    /\ lastCall.outcome.error = "UndeclaredDependencyError"

\* a plugin instance (by its context) is live: it is in the registry, or
\* its initialize hook is running, or its unload has begun
Live(c) ==
    \/ \E n \in DOMAIN plugins : plugins[n].load = c
    \/ \E t \in BagToSet(tasks) : t.pc = "initialize" /\ t.ctx = c
    \/ c \in unloadBegun

\* C17: while the initialize hook of an instance is running, every instance
\* of the same name that was loaded before it has been unloaded to the end
\* (its cleanup hook has completed); and a loadPlugin that returns leaves its
\* instance as the one entry of the name.
C17_InitializeAfterCleanup ==
    /\ \A t \in BagToSet(tasks) :
          t.pc = "initialize" =>
              \A c \in 1..(t.ctx - 1) :
                  (contexts[c].pluginName = t.name /\ Live(c)) => c \in unloadDone
    /\ (lastCall.api = "loadPlugin" /\ lastCall.outcome.error = "none")
          => (has(plugins, lastCall.request.name)
              /\ plugins[lastCall.request.name].load = lastCall.ctx)

\* C18: when unloadPlugin of a plugin instance has returned, no listener that
\* the instance registered with on or once is on the shared bus, and the
\* listener registry has no entry for the plugin.
C18_ListenersRemoved ==
    (lastCall.api = "unloadPlugin" /\ lastCall.outcome.error = "none" /\ lastCall.ctx # 0)
        => /\ \A i \in DOMAIN busListeners : busListeners[i].ctx # lastCall.ctx
           /\ ~has(pluginListeners, contexts[lastCall.ctx].pluginName)

\* C19: an emit through the event bus of a plugin invokes no listener that
\* was registered through the event bus of a plugin of the same name.
C19_NoSelfDelivery ==
    [][lastCall'.api = "eventBus.emit" =>
          \A i \in DOMAIN busListeners :
              busListeners[i].id \in Range(lastCall'.outcome.delivered)
                  => busListeners[i].pluginName # contexts[lastCall'.ctx].pluginName]_vars

\* a plugin has emitted an event for which a listener of its own is on the
\* bus, and nothing was delivered
C19_Witness ==
    /\ lastCall.api = "eventBus.emit"
    /\ lastCall.outcome.error = "none"
    /\ lastCall.outcome.delivered = <<>>
    /\ \E i \in DOMAIN busListeners :
          /\ busListeners[i].event = lastCall.request
          /\ busListeners[i].pluginName = contexts[lastCall.ctx].pluginName

\* C20: an off(event, listener) that returns, for a listener that the plugin
\* has registered for the event with on, takes that listener off the bus and
\* leaves every other listener on the bus.
C20_OffRemovesOne ==
    [][(/\ lastCall'.api = "eventBus.off"
        /\ lastCall'.outcome.error = "none"
        /\ \E i \in DOMAIN busListeners :
              /\ busListeners[i].id = lastCall'.request.listener
              /\ busListeners[i].event = lastCall'.request.event
              /\ busListeners[i].ctx = lastCall'.ctx
              /\ ~busListeners[i].once) =>
          /\ \A i \in DOMAIN busListeners' :
                busListeners'[i].id # lastCall'.request.listener
          /\ \A i \in DOMAIN busListeners :
                busListeners[i].id # lastCall'.request.listener
                    => \E j \in DOMAIN busListeners' : busListeners'[j] = busListeners[i]]_vars


\* what getPluginResourceOverrides(name) returns in the current state
StoredNow(name) == storedOverrides(pluginResourceOverrides, name)

\* the value the last setPluginResourceOverrides / clearPluginResourceOverrides
\* for the name has written (absent after a clear)
LastWritten(name) == lastOverrideCall[name].overrides

DetachingOps == {"setPluginResourceOverrides", "clearPluginResourceOverrides"}

\* C21: getPluginResourceOverrides(name) returns the structure passed to the
\* most recent setPluginResourceOverrides(name, ...), and absent when the most
\* recent of the two calls was clearPluginResourceOverrides(name) - at once
\* and after the reload that the call detached has completed.
C21_RoundTrip ==
    /\ (lastCall.api \in DetachingOps /\ lastCall.outcome.error = "none")
           => StoredNow(lastCall.request.name) = LastWritten(lastCall.request.name)
    /\ (/\ lastCall.api = "getPluginResourceOverrides"
        /\ has(lastOverrideCall, lastCall.request.name)
        /\ tasks = EmptyBag)
           => lastCall.outcome.returned = LastWritten(lastCall.request.name)

\* C22: unloadPlugin and unloadAll leave the stored overrides of every name
\* unchanged, and so does every step of a reloadPlugin(name) called without
\* overrides, which builds the new context from the overrides stored for
\* the name.
ReloadStep ==
    /\ lastCall'.api \in {"unloadPlugin", "loadPlugin", "plugin.initialize"}
    /\ lastCall'.request.op = "reloadPlugin"

C22_OverridesSurvive ==
    [][(lastCall'.api \in {"unloadPlugin", "unloadAll"} \/ ReloadStep)
           => pluginResourceOverrides' = pluginResourceOverrides]_vars

\* C23: once every reload detached by the setPluginResourceOverrides and
\* clearPluginResourceOverrides calls for a name has completed, the override
\* stored for the name is the value of the last set, or absent when the last
\* of the calls was a clear.
C23_LastWriteWins ==
    tasks = EmptyBag
        => \A name \in DOMAIN lastOverrideCall : StoredNow(name) = LastWritten(name)

\* C24: after a set or a clear of the overrides of a loaded plugin, once the
\* detached reloads have all completed and none has failed, the plugin is
\* loaded and the allowed sets of its context are those computed from the
\* override now stored for it (from its metadata when none is stored).
AllowedNow(name, kind) ==
    allowedResources(name, StoredNow(name), modules[pluginPaths[name]].metadata, kind)

ContextAllowed(c, kind) ==
    IF kind = "table" THEN contexts[c].allowedTables
    ELSE IF kind = "topic" THEN contexts[c].allowedTopics
    ELSE contexts[c].allowedBuckets

C24_TakesEffect ==
    (/\ lastCall.api = "loadPlugin"
     /\ lastCall.request.op \in DetachingOps
     /\ lastCall.outcome.error = "none"
     /\ tasks = EmptyBag)
        => LET name == lastCall.request.name
           IN  /\ has(plugins, name)
               /\ \A kind \in Kinds :
                      /\ ContextAllowed(plugins[name].load, kind) = AllowedNow(name, kind)
                      /\ ContextAllowed(pluginContexts[name], kind) = AllowedNow(name, kind)

\* the step has called the initialize hook of a plugin that
\* loadPluginsFromDirectory loads
BulkInitialize ==
    /\ lastCall.api = "plugin.initialize"
    /\ lastCall.request.op = "loadPluginsFromDirectory"

\* C25: when loadPluginsFromDirectory calls the initialize hook of a plugin,
\* every dependency the plugin declares is in the registry, and the call has
\* itself completed the load of each of them before.
C25_DependenciesFirst ==
    BulkInitialize
        => \A dep \in Range(modules[lastCall.request.path].metadata.dependencies) :
               /\ has(plugins, dep)
               /\ dep \in lastCall.request.bulk.loadedPlugins

C25_Witness ==
    /\ BulkInitialize
    /\ modules[lastCall.request.path].metadata.dependencies # <<>>

\* C26: when a pass of loadPluginsFromDirectory loads nothing while plugins
\* remain, the caller receives a DependencyResolutionError that lists exactly
\* the names of the remaining plugins.
C26_DependencyResolutionError ==
    (lastCall.api = "loadPluginsFromDirectory" /\ lastCall.outcome.error # "none")
        => /\ lastCall.outcome.error = "DependencyResolutionError"
           /\ lastCall.request.unresolved # <<>>

\* an unloadPlugin called by unloadAll awaits the cleanup hook of the plugin
UnloadAllPending(name) ==
    \E t \in BagToSet(tasks) : t.op = "unloadAll" /\ t.name = name /\ t.pc = "cleanup"

\* the step has settled an unloadPlugin that unloadAll has called
UnloadAllSettled(name) ==
    /\ lastCall.api = "unloadPlugin"
    /\ lastCall.request.op = "unloadAll"
    /\ lastCall.request.name = name

\* an unload of the plugin has ended at the failure of the cleanup hook: no
\* unload is pending, and the plugin is in the registry and marked invalid
CleanupFailed(name) ==
    /\ has(plugins, name)
    /\ name \in invalidatedPlugins
    /\ \A t \in BagToSet(tasks) : ~(t.name = name /\ t.pc = "cleanup")

\* C27: unloadAll starts the unload of every plugin in the registry at the
\* time of the call; each of these unloads settles whatever becomes of the
\* others, and one whose cleanup hook returns leaves its plugin absent from
\* the registry.
C27_IndependentUnloads ==
    /\ [][lastCall'.api = "unloadAll"
              => \A name \in DOMAIN plugins :
                     ~has(plugins', name) \/ UnloadAllPending(name)']_vars
    /\ [][(/\ lastCall'.api = "unloadPlugin"
           /\ lastCall'.request.op = "unloadAll"
           /\ lastCall'.outcome.error = "none")
              => ~has(plugins', lastCall'.request.name)]_vars
    /\ \A name \in DirectoryNames :
           UnloadAllPending(name) ~> UnloadAllSettled(name)

C27_Witness ==
    /\ lastCall.api = "unloadPlugin"
    /\ lastCall.request.op = "unloadAll"
    /\ lastCall.request.name = NameB
    /\ lastCall.outcome.error = "none"
    /\ ~has(plugins, NameB)
    /\ CleanupFailed(NameA)

Emitted(event, name) == CopiesIn([event |-> event, name |-> name], emitted)

\* the step is a call of reloadPlugin(name) rejected with PluginNotFoundError
ReloadNotFound ==
    /\ lastCall.api = "reloadPlugin"
    /\ lastCall.outcome.error = "PluginNotFoundError"

ReloadCalled(t) ==
    /\ t.op = "reloadPlugin"
    /\ BagCardinality(tasks') = BagCardinality(tasks) + 1
    /\ CopiesIn(t, tasks') = CopiesIn(t, tasks) + 1

C30_Notifications ==
    /\ [][(lastCall'.api = "loadPlugin" /\ lastCall'.outcome.error = "none")
              => /\ has(plugins', lastCall'.request.name)
                 /\ emitted' = emitted (+) emit("pluginLoaded", lastCall'.request.name)]_vars
    /\ [][\A name \in DOMAIN plugins :
              (~has(plugins', name) \/ plugins'[name].load # plugins[name].load)
                  => CopiesIn([event |-> "pluginUnloaded", name |-> name], emitted')
                         = Emitted("pluginUnloaded", name) + 1]_vars
    /\ [](\A name \in PluginNames :
              Emitted("pluginUnloaded", name) <= Emitted("pluginLoaded", name))

\* the operations of the manager that deliver lifecycle errors to a caller
LifecycleApis == {"loadPlugin", "unloadPlugin", "reloadPlugin", "loadPluginsFromDirectory"}

\* C31: every error that loadPlugin, unloadPlugin, reloadPlugin or
\* loadPluginsFromDirectory delivers to its caller has also been emitted as
\* a pluginError event by the step that delivers it.
C31_ErrorsBroadcast ==
    (lastCall.api \in LifecycleApis /\ lastCall.outcome.error # "none")
        => lastCall.outcome.error \in lastCall.outcome.broadcast

\* plugin b is registered and its module declares a as a dependency
DependsOn(b, a) ==
    /\ a # b
    /\ has(plugins, b)
    /\ a \in Range(modules[plugins[b].path].metadata.dependencies)

\* the step is a step of an unload of a: it marks a invalid, or it removes a
\* from the registry
UnloadStep(a) ==
    \/ a \in invalidatedPlugins' \ invalidatedPlugins
    \/ has(plugins, a) /\ ~has(plugins', a)

\* the step leaves plugin b registered and valid as it was, with its
\* context, its dependency record and its listeners
Kept(b) ==
    /\ has(plugins', b) /\ plugins'[b] = plugins[b]
    /\ (b \in invalidatedPlugins') = (b \in invalidatedPlugins)
    /\ has(pluginContexts', b) = has(pluginContexts, b)
    /\ has(pluginContexts, b) => pluginContexts'[b] = pluginContexts[b]
    /\ contexts'[plugins[b].load] = contexts[plugins[b].load]
    /\ has(pluginDependencies', b) = has(pluginDependencies, b)
    /\ has(pluginListeners', b) = has(pluginListeners, b)
    /\ has(pluginListeners, b) => pluginListeners'[b] = pluginListeners[b]
    /\ \A i \in DOMAIN busListeners :
           busListeners[i].pluginName = b
               => \E j \in DOMAIN busListeners' : busListeners'[j] = busListeners[i]

C33_BulkFailuresReachCaller ==
    (lastCall.api = "loadPluginsFromDirectory" /\ lastCall.outcome.error = "none")
        => \A i \in DOMAIN lastCall.request.pluginModules :
               LET pluginPath == lastCall.request.pluginModules[i]
                   name == modules[pluginPath].metadata.name
               IN  has(plugins, name) /\ plugins[name].path = pluginPath

\* the loadPluginsFromDirectory calls in progress
BulkTasks(ts) == {t \in BagToSet(ts) : t.op = "loadPluginsFromDirectory"}

\* how far the loadPlugin awaited at line 605 has come
LoadRank(pc) ==
    CASE pc = "loop" -> 0 [] pc = "import" -> 1 [] pc = "cleanup" -> 2
      [] pc = "validate" -> 3 [] pc = "initialize" -> 4 [] OTHER -> 5

\* C34: the scan loop of loadPluginsFromDirectory terminates when the hooks
\* settle.  Every step of the call either settles a loadPlugin, which takes
\* a descriptor out of the remaining set, or leaves the set as it is and
\* takes the loadPlugin in progress further; a call that ends with
\* descriptors remaining ends with an error and one that returns has none
\* remaining; and a call in progress comes to its end.
C34_LoaderTerminates ==
    /\ [][\A t \in BulkTasks(tasks), u \in BulkTasks(tasks') :
              (t.pc # "scan" /\ u # t)
                  => IF u.pc = "loop"
                     THEN Len(u.bulk.remaining) < Len(t.bulk.remaining)
                     ELSE /\ u.bulk.remaining = t.bulk.remaining
                          /\ LoadRank(u.pc) > LoadRank(t.pc)]_vars
    /\ [](lastCall.api = "loadPluginsFromDirectory"
              => (lastCall.outcome.error = "none") = (lastCall.request.unresolved = <<>>))
    /\ (BulkTasks(tasks) # {}) ~> (BulkTasks(tasks) = {})

C34_Witness ==
    /\ lastCall.api = "loadPluginsFromDirectory"
    /\ lastCall.request.pluginModules = <<"pg", "pa">>
    /\ lastCall.request.unresolved = <<NameB>>
    /\ lastCall.outcome.error # "none"
    /\ BulkTasks(tasks) = {}

\* C35: a registered plugin instance that has a cleanup hook is overwritten
\* in or deleted from the registry only after an unload has invoked the
\* cleanup hook of that instance.
C35_CleanupBeforeRemoval ==
    [][\A name \in DOMAIN plugins :
          (/\ modules[plugins[name].path].cleanup
           /\ ~has(plugins', name) \/ plugins'[name].load # plugins[name].load)
              => plugins[name].load \in unloadBegun]_vars

\* the number of invocations of the cleanup hook of load c that have not
\* settled yet
CleanupsPending(ts, c) ==
    LET calls == {t \in BagToSet(ts) : t.pc = "cleanup" /\ t.plugin.load = c}
    IN  BagCardinality([t \in calls |-> ts[t]])

\* C36: the cleanup hook of one loaded plugin instance is invoked at most
\* once: a step that invokes it finds that no unload of the instance has
\* begun before.
C36_CleanupOnce ==
    [][\A c \in DOMAIN contexts :
          CleanupsPending(tasks', c) > CleanupsPending(tasks, c)
              => c \notin unloadBegun]_vars

\* C37: when loadPlugin fails with PluginLoadError because the initialize
\* hook threw, no listener registered through the context of the failed
\* load is on the bus, and the dependency records, the context map, the
\* name-map store and the listener registry have no entry for the name.
C37_FailedInitialize ==
    (/\ lastCall.api = "loadPlugin"
     /\ lastCall.outcome.error = "PluginLoadError"
     /\ lastCall.request.pc = "initialize")
        => /\ \A i \in DOMAIN busListeners : busListeners[i].ctx # lastCall.ctx
           /\ ~has(pluginDependencies, lastCall.request.name)
           /\ ~has(pluginContexts, lastCall.request.name)
           /\ ~has(pluginResourceNameMaps, lastCall.request.name)
           /\ ~has(pluginListeners, lastCall.request.name)

\* an unload of the plugin is in progress: it awaits the cleanup hook
UnloadInProgress(name) ==
    \E t \in BagToSet(tasks) : t.pc = "cleanup" /\ t.name = name

\* C38: in every state in which no unload of a plugin is in progress, a
\* plugin that is in the registry is not marked invalidated, so that the
\* calls through its current context do not fail with the invalidity error.
C38_RegisteredUsable ==
    \A name \in PluginNames :
        (has(plugins, name) /\ ~UnloadInProgress(name))
            => name \notin invalidatedPlugins

\* C39: a listener registered with eventBus.once(e, l) stays registered
\* until an event e of another plugin is emitted, and is invoked with that
\* event: a step that takes the registration off the bus is an emit that
\* delivers to the listener.
C39_OnceFirstForeign ==
    [][\A i \in DOMAIN busListeners :
          (/\ busListeners[i].once
           /\ \A j \in DOMAIN busListeners' : busListeners'[j] # busListeners[i])
              => /\ lastCall'.api = "eventBus.emit"
                 /\ busListeners[i].id \in Range(lastCall'.outcome.delivered)]_vars

\* the last call has been made through the context of a plugin instance that
\* is in the registry, and has returned
CalledByLoaded ==
    /\ lastCall.outcome.error = "none"
    /\ \E b \in DOMAIN plugins : plugins[b].load = lastCall.ctx

\* C40: getDependency(name) and getDependencies() on the context of a loaded
\* plugin return the plugin objects that are in the registry now under the
\* declared names, and nothing for a declared name that is not loaded.
C40_CurrentInstance ==
    /\ (lastCall.api = "getDependency" /\ CalledByLoaded)
           => lastCall.outcome.returned =
                  IF has(plugins, lastCall.request) THEN plugins[lastCall.request]
                  ELSE NoPlugin
    /\ (lastCall.api = "getDependencies" /\ CalledByLoaded)
           => lastCall.outcome.returned =
                  [d \in Range(contexts[lastCall.ctx].dependencies) \cap DOMAIN plugins
                      |-> plugins[d]]
=============================================================================
